---- MODULE Spec2Model ----
(***************************************************************************)
(* Credit ledger of the credits app: wallets, the CreditTransaction        *)
(* ledger, and the services reserve / commit / reverse / top_up / sweep    *)
(* and the charge_one_credit decorator, over a store with read-committed   *)
(* transactions, row locks held until the end of the transaction, and a    *)
(* partial unique index on (wallet, idempotency_key).                      *)
(*                                                                         *)
(* A ledger row carries, besides its committed image, the transaction that *)
(* inserted it while that transaction is open (xmin), the holder of its    *)
(* row lock (lock) and the holder's uncommitted status and note (pstatus,  *)
(* pnote).  A wallet carries its committed balance, the holder of its row  *)
(* lock and the holder's uncommitted balance (pbalance).  The request_id   *)
(* column is written once and never read by any service; it is left out.   *)
(***************************************************************************)
EXTENDS Integers, Sequences, FiniteSets, TLC

(* ---- bounds ---- *)
NumProcs == 3
NumWorkers == 2
NumWallets == 1
MaxBal == 2
MaxAmount == 2
MaxOps == 3
MaxRequests == 2
MaxTicks == 1
MaxChunk == 2
MaxStale == 3
NumSweepWallets == 2
MaxPending == 4

(* ---- program constants ---- *)
TTL == 300

Procs == 1..NumProcs
Workers == 1..NumWorkers
NoProc == 0
Wallets == 1..NumWallets
NoWallet == 0
NoTx == 0

PENDING == "pending"
COMMITTED == "committed"
REVERSED == "reversed"
DEBIT == "debit"
CREDIT == "credit"
REFUND == "refund"

NoKey == "None"
Keys == {NoKey, "k1"}
KeyInputs == {NoKey, "", "k1"}
Amounts == 0..MaxAmount
AmountInputs == (0 - 1)..MaxAmount
Reasons == {"r1", "r2"}

VARIABLES wallets, rows, nextId, now, ticks, pc, loc, log, bal0

vars == <<wallets, rows, nextId, now, ticks, pc, loc, log, bal0>>

(* ---------------------------------------------------------------------- *)
(* The store                                                               *)
(* ---------------------------------------------------------------------- *)

Wallet(b) == [balance |-> b, pbalance |-> b, lock |-> NoProc]

CreditTransaction(p, w, d, ty, st, k, n) ==
    [wallet |-> w, delta |-> d, tx_type |-> ty, tx_status |-> st,
     idempotency_key |-> k, note |-> n, created_at |-> now,
     xmin |-> p, lock |-> NoProc, pstatus |-> st, pnote |-> n]

\* rows a transaction of p can see: committed ones and its own inserts
Visible(p) == {id \in DOMAIN rows : rows[id].xmin \in {NoProc, p}}

\* rows of the committed ledger
LedgerOf(rs) == {id \in DOMAIN rs : rs[id].xmin = NoProc}
Ledger == LedgerOf(rows)

\* INSERT: the next id of the sequence is consumed, also if the
\* transaction later rolls back
Inserted(rs, rec) ==
    [id \in (DOMAIN rs) \cup {nextId} |-> IF id = nextId THEN rec ELSE rs[id]]

\* the store after transaction p commits
CommittedRows(p, rs) ==
    [id \in DOMAIN rs |->
        IF rs[id].xmin = p THEN [rs[id] EXCEPT !.xmin = NoProc, !.lock = NoProc]
        ELSE IF rs[id].lock = p
        THEN [rs[id] EXCEPT !.tx_status = rs[id].pstatus, !.note = rs[id].pnote,
                            !.lock = NoProc]
        ELSE rs[id]]

CommittedWallets(p, ws) ==
    [w \in DOMAIN ws |->
        IF ws[w].lock = p
        THEN [ws[w] EXCEPT !.balance = ws[w].pbalance, !.lock = NoProc]
        ELSE ws[w]]

\* (faulty variant: the rows of the failed transaction are kept)
RolledBackRowsKept(p, rs) ==
    [id \in DOMAIN rs |->
        IF rs[id].xmin = p THEN [rs[id] EXCEPT !.xmin = NoProc, !.lock = NoProc]
        ELSE IF rs[id].lock = p
        THEN [rs[id] EXCEPT !.pstatus = rs[id].tx_status, !.pnote = rs[id].note,
                            !.lock = NoProc]
        ELSE rs[id]]

\* the store after transaction p rolls back
RolledBackRows(p, rs) ==
    [id \in {i \in DOMAIN rs : rs[i].xmin # p} |->
        IF rs[id].lock = p
        THEN [rs[id] EXCEPT !.pstatus = rs[id].tx_status, !.pnote = rs[id].note,
                            !.lock = NoProc]
        ELSE rs[id]]

\* (faulty variant: the balance written by the failed transaction stays)
RolledBackWalletsKept(p, ws) ==
    [w \in DOMAIN ws |->
        IF ws[w].lock = p
        THEN [ws[w] EXCEPT !.balance = ws[w].pbalance, !.lock = NoProc]
        ELSE ws[w]]

RolledBackWallets(p, ws) ==
    [w \in DOMAIN ws |->
        IF ws[w].lock = p
        THEN [ws[w] EXCEPT !.pbalance = ws[w].balance, !.lock = NoProc]
        ELSE ws[w]]

\* UPDATE wallet SET balance = balance + d WHERE id = w, inside transaction p
UpdatedBalance(p, ws, w, d) ==
    [ws EXCEPT ![w].pbalance = ws[w].pbalance + d, ![w].lock = p]

WalletFree(p, w) == wallets[w].lock \in {NoProc, p}
RowFree(p, id) == rows[id].lock \in {NoProc, p} /\ rows[id].xmin \in {NoProc, p}

(* ---------------------------------------------------------------------- *)
(* Processes                                                               *)
(* ---------------------------------------------------------------------- *)

Loc0 == [op |-> "none", caller |-> "top", wallet |-> NoWallet, amount |-> 0,
         key |-> NoKey, tx |-> NoTx, reason |-> "", cutoff |-> 0, chunk |-> 0,
         batch |-> <<>>, blen |-> 0, total |-> 0, outcome |-> "none",
         status |-> 0, ncommit |-> 0, nreverse |-> 0, how |-> "none",
         apikey |-> NoKey]

Started == Cardinality(log) + Cardinality({p \in Procs : pc[p] # "idle"})

CallsOf(p) == Cardinality({e \in log : e.proc = p})

Entry(p, res, tx) ==
    [proc |-> p, seq |-> CallsOf(p), op |-> loc[p].op, wallet |-> loc[p].wallet,
     amount |-> loc[p].amount, key |-> loc[p].key, res |-> res, tx |-> tx,
     status |-> loc[p].status, total |-> loc[p].total,
     ncommit |-> loc[p].ncommit, nreverse |-> loc[p].nreverse,
     how |-> loc[p].how, reason |-> loc[p].reason, apikey |-> loc[p].apikey]

\* the top-level call of p returns (or raises) res
Done(p, res, tx) ==
    /\ pc' = [pc EXCEPT ![p] = "idle"]
    /\ loc' = [loc EXCEPT ![p] = Loc0]
    /\ log' = log \cup {Entry(p, res, tx)}

(* ---------------------------------------------------------------------- *)
(* ReserveCreditsService                                                   *)
(* ---------------------------------------------------------------------- *)

\* (faulty variant: zero passes the validation)
ValidAmountZero(n) == n >= 0

\* _validate_amount raises ValueError unless this holds
ValidAmount(n) == n > 0

\* `if idempotency_key:` - None and the empty string take the keyless branch
HasKey(k) == k # NoKey /\ k # ""

\* (faulty variant: the reservation's delta is the amount, unsigned)
TxDefaultsUnsigned(p, w, n, k) ==
    CreditTransaction(p, w, n, DEBIT, PENDING, k, "api-request")

\* _tx_defaults
TxDefaults(p, w, n, k) ==
    CreditTransaction(p, w, 0 - n, DEBIT, PENDING, k, "api-request")

\* (faulty variant: the lookup by key finds nothing)
KeyedNone(S, w, k) == {}

\* (faulty variant: the lookup by key ignores the wallet)
KeyedAnyWallet(S, w, k) == {id \in S : rows[id].idempotency_key = k}

\* the rows with (wallet, idempotency_key) = (w, k) among the ids in S
Keyed(S, w, k) ==
    {id \in S : rows[id].wallet = w /\ rows[id].idempotency_key = k}

\* (faulty variants: the balance test off by one, strict, and missing)
UpdatedOffByOne(ws, w, n) == IF ws[w].pbalance >= n - 1 THEN 1 ELSE 0
UpdatedStrict(ws, w, n) == IF ws[w].pbalance > n THEN 1 ELSE 0
UpdatedUnconditional(ws, w, n) == 1

\* rows-affected of UPDATE wallet SET balance = balance - n
\*                  WHERE id = w AND balance >= n
Updated(ws, w, n) == IF ws[w].pbalance >= n THEN 1 ELSE 0

\* the reserve call of p returns tx (res = "ok") or raises res
\* (how records the path taken: "hit" for a row found by the lookup,
\* "conflict" for one found after IntegrityError, "created" for an insert)
ReserveReturn(p, res, tx, how) ==
    IF loc[p].caller = "wrap"
    THEN IF res = "InsufficientCredits"
         THEN /\ pc' = [pc EXCEPT ![p] = "idle"]
              /\ loc' = [loc EXCEPT ![p] = Loc0]
              /\ log' = log \cup {[Entry(p, "402", NoTx) EXCEPT !.how = how]}
         ELSE /\ pc' = [pc EXCEPT ![p] = "wr_handler"]
              /\ loc' = [loc EXCEPT ![p].tx = tx, ![p].how = how]
              /\ UNCHANGED log
    ELSE /\ pc' = [pc EXCEPT ![p] = "idle"]
         /\ loc' = [loc EXCEPT ![p] = Loc0]
         /\ log' = log \cup {[Entry(p, res, tx) EXCEPT !.how = how]}

ReserveCall(p, w, n, k) ==
    /\ pc[p] = "idle"
    /\ Started < MaxOps
    /\ pc' = [pc EXCEPT ![p] = "res_validate"]
    /\ loc' = [loc EXCEPT ![p] = [Loc0 EXCEPT !.op = "reserve", !.wallet = w,
                                              !.amount = n, !.key = k]]
    /\ UNCHANGED <<wallets, rows, nextId, now, ticks, log, bal0>>

ReserveValidate(p) ==
    /\ pc[p] = "res_validate"
    /\ IF ValidAmount(loc[p].amount)
       THEN /\ pc' = [pc EXCEPT ![p] =
                        IF HasKey(loc[p].key) THEN "res_get" ELSE "res_create"]
            /\ UNCHANGED <<loc, log>>
       ELSE ReserveReturn(p, "ValueError", NoTx, "none")
    /\ UNCHANGED <<wallets, rows, nextId, now, ticks, bal0>>

\* (faulty variant: an idempotent hit goes on to the decrement)
ReserveGetDebit(p) ==
    /\ pc[p] = "res_get"
    /\ LET hit == Keyed(Visible(p), loc[p].wallet, loc[p].key)
       IN IF hit # {}
          THEN /\ pc' = [pc EXCEPT ![p] = "res_dec"]
               /\ loc' = [loc EXCEPT ![p].tx = CHOOSE id \in hit : TRUE]
               /\ UNCHANGED log
          ELSE /\ pc' = [pc EXCEPT ![p] = "res_create"]
               /\ UNCHANGED <<loc, log>>
    /\ UNCHANGED <<wallets, rows, nextId, now, ticks, bal0>>

\* get_or_create, the lookup: an existing row is an idempotent hit and the
\* call returns it; the (empty) transaction commits
ReserveGet(p) ==
    /\ pc[p] = "res_get"
    /\ LET hit == Keyed(Visible(p), loc[p].wallet, loc[p].key)
       IN IF hit # {}
          THEN ReserveReturn(p, "ok", CHOOSE id \in hit : TRUE, "hit")
          ELSE /\ pc' = [pc EXCEPT ![p] = "res_create"]
               /\ UNCHANGED <<loc, log>>
    /\ UNCHANGED <<wallets, rows, nextId, now, ticks, bal0>>

\* (faulty variant: no unique index arbitrates the insert)
ReserveCreateNoIndex(p) ==
    /\ pc[p] = "res_create"
    /\ rows' = Inserted(rows, TxDefaults(p, loc[p].wallet, loc[p].amount,
                            IF HasKey(loc[p].key) THEN loc[p].key ELSE NoKey))
    /\ nextId' = nextId + 1
    /\ pc' = [pc EXCEPT ![p] = "res_dec"]
    /\ loc' = [loc EXCEPT ![p].tx = nextId]
    /\ UNCHANGED <<wallets, now, ticks, bal0, log>>

\* get_or_create, the insert under the unique index, and _create_tx.
\* The insert waits for an open transaction that inserted the same
\* (wallet, key); against a committed one it raises IntegrityError, which
\* get_or_create answers with the existing row.
ReserveCreate(p) ==
    /\ pc[p] = "res_create"
    /\ LET w == loc[p].wallet
           n == loc[p].amount
           k == IF HasKey(loc[p].key) THEN loc[p].key ELSE NoKey
           same == IF HasKey(loc[p].key) THEN Keyed(DOMAIN rows, w, k) ELSE {}
       IN /\ \A id \in same : rows[id].xmin \in {NoProc, p}
          /\ IF same # {}
             THEN /\ ReserveReturn(p, "ok", CHOOSE id \in same : TRUE, "conflict")
                  /\ UNCHANGED <<rows, nextId>>
             ELSE /\ rows' = Inserted(rows, TxDefaults(p, w, n, k))
                  /\ nextId' = nextId + 1
                  /\ pc' = [pc EXCEPT ![p] = "res_dec"]
                  /\ loc' = [loc EXCEPT ![p].tx = nextId]
                  /\ UNCHANGED log
    /\ UNCHANGED <<wallets, now, ticks, bal0>>

\* _conditional_decrement; the UPDATE waits for the wallet row lock
ReserveDecrement(p) ==
    /\ pc[p] = "res_dec"
    /\ WalletFree(p, loc[p].wallet)
    /\ IF Updated(wallets, loc[p].wallet, loc[p].amount) = 0
       THEN /\ pc' = [pc EXCEPT ![p] = "res_rollback"]
            /\ UNCHANGED wallets
       ELSE /\ pc' = [pc EXCEPT ![p] = "res_commit"]
            /\ wallets' = UpdatedBalance(p, wallets, loc[p].wallet,
                                         0 - loc[p].amount)
    /\ UNCHANGED <<rows, nextId, now, ticks, loc, log, bal0>>

\* InsufficientCredits leaves the atomic block: rollback
ReserveRollback(p) ==
    /\ pc[p] = "res_rollback"
    /\ rows' = RolledBackRows(p, rows)
    /\ wallets' = RolledBackWallets(p, wallets)
    /\ ReserveReturn(p, "InsufficientCredits", NoTx, "created")
    /\ UNCHANGED <<nextId, now, ticks, bal0>>

\* (faulty variant: reserve returns with its transaction still open)
ReserveCommitOpen(p) ==
    /\ pc[p] = "res_commit"
    /\ UNCHANGED <<rows, wallets>>
    /\ ReserveReturn(p, "ok", loc[p].tx, "created")
    /\ UNCHANGED <<nextId, now, ticks, bal0>>

\* _after_success and return: the atomic block commits
ReserveCommit(p) ==
    /\ pc[p] = "res_commit"
    /\ rows' = CommittedRows(p, rows)
    /\ wallets' = CommittedWallets(p, wallets)
    /\ ReserveReturn(p, "ok", loc[p].tx, "created")
    /\ UNCHANGED <<nextId, now, ticks, bal0>>

ReserveSteps(p) ==
    \/ ReserveValidate(p)
    \/ ReserveGet(p)
    \/ ReserveCreate(p)
    \/ ReserveDecrement(p)
    \/ ReserveRollback(p)
    \/ ReserveCommit(p)

(* ---------------------------------------------------------------------- *)
(* commit_reservation                                                      *)
(* ---------------------------------------------------------------------- *)

\* the commit / reverse call of p on loc[p].tx returns
SettleReturn(p, res) ==
    IF loc[p].caller = "wrap"
    THEN Done(p, loc[p].outcome, loc[p].tx)
    ELSE Done(p, res, loc[p].tx)

CommitCall(p, id) ==
    /\ pc[p] = "idle"
    /\ Started < MaxOps
    /\ id \in Ledger
    /\ pc' = [pc EXCEPT ![p] = "com_select"]
    /\ loc' = [loc EXCEPT ![p] = [Loc0 EXCEPT !.op = "commit", !.tx = id,
                                              !.wallet = rows[id].wallet]]
    /\ UNCHANGED <<wallets, rows, nextId, now, ticks, log, bal0>>

\* select_for_update().get(pk=tx.pk): waits for the row lock
CommitSelect(p) ==
    /\ pc[p] = "com_select"
    /\ RowFree(p, loc[p].tx)
    /\ rows' = [rows EXCEPT ![loc[p].tx].lock = p]
    /\ pc' = [pc EXCEPT ![p] = "com_save"]
    /\ UNCHANGED <<wallets, nextId, now, ticks, loc, log, bal0>>

\* (faulty variants: the commit leaves a PENDING row as it is; the commit
\* overwrites a terminal status)
CommitStatusKeep(st) == st
CommitStatusAlways(st) == COMMITTED

\* the status a commit leaves on a row it found with status st
CommitStatus(st) == IF st # PENDING THEN st ELSE COMMITTED

\* status check, save(update_fields=["tx_status"]), end of the atomic block
CommitSave(p) ==
    /\ pc[p] = "com_save"
    /\ LET id == loc[p].tx
           st == CommitStatus(rows[id].pstatus)
       IN /\ rows' = CommittedRows(p, [rows EXCEPT ![id].pstatus = st])
          /\ wallets' = CommittedWallets(p, wallets)
          /\ SettleReturn(p, st)
    /\ UNCHANGED <<nextId, now, ticks, bal0>>

\* pending.save(...) raises (a database error): the exception leaves the
\* atomic block, which rolls back, and reaches the caller
CommitFail(p) ==
    /\ pc[p] = "com_save"
    /\ rows[loc[p].tx].pstatus = PENDING
    /\ rows' = RolledBackRows(p, rows)
    /\ wallets' = RolledBackWallets(p, wallets)
    /\ pc' = [pc EXCEPT ![p] = "idle"]
    /\ loc' = [loc EXCEPT ![p] = Loc0]
    /\ log' = log \cup {[Entry(p, "IntegrityError", loc[p].tx)
                            EXCEPT !.how = pc[p]]}
    /\ UNCHANGED <<nextId, now, ticks, bal0>>

CommitSteps(p) ==
    \/ CommitSelect(p)
    \/ CommitSave(p)

(* ---------------------------------------------------------------------- *)
(* reverse_reservation                                                     *)
(* ---------------------------------------------------------------------- *)

RefundNote(id, reason) == <<"refund of tx", id, reason>>

ReverseCall(p, id, reason) ==
    /\ pc[p] = "idle"
    /\ Started < MaxOps
    /\ id \in Ledger
    /\ pc' = [pc EXCEPT ![p] = "rev_select"]
    /\ loc' = [loc EXCEPT ![p] = [Loc0 EXCEPT !.op = "reverse", !.tx = id,
                                              !.wallet = rows[id].wallet,
                                              !.reason = reason]]
    /\ UNCHANGED <<wallets, rows, nextId, now, ticks, log, bal0>>

\* the reverse_reservation call of p returns; inside a sweep batch the
\* atomic block is nested and the batch goes on with its next row
ReverseReturn(p, res) ==
    IF loc[p].caller = "sweep"
    THEN /\ pc' = [pc EXCEPT ![p] =
                     IF Len(loc[p].batch) > 1 THEN "rev_select" ELSE "sw_commit"]
         /\ loc' = [loc EXCEPT ![p].batch = Tail(loc[p].batch),
                               ![p].tx = IF Len(loc[p].batch) > 1
                                         THEN loc[p].batch[2] ELSE NoTx]
         /\ UNCHANGED log
    ELSE SettleReturn(p, res)

\* select_for_update().get(pk=tx.pk): waits for the row lock
ReverseSelect(p) ==
    /\ pc[p] = "rev_select"
    /\ RowFree(p, loc[p].tx)
    /\ rows' = [rows EXCEPT ![loc[p].tx].lock = p]
    /\ pc' = [pc EXCEPT ![p] = "rev_save"]
    /\ UNCHANGED <<wallets, nextId, now, ticks, loc, log, bal0>>

\* (faulty variant: no status check, every call reverses)
ReverseSaveNoCheck(p) ==
    /\ pc[p] = "rev_save"
    /\ rows' = [rows EXCEPT ![loc[p].tx].pstatus = REVERSED,
                            ![loc[p].tx].pnote = loc[p].reason]
    /\ pc' = [pc EXCEPT ![p] = "rev_wallet"]
    /\ UNCHANGED <<wallets, loc, log, nextId, now, ticks, bal0>>

\* status check; a row that is not PENDING is returned as it is, else
\* save(update_fields=["tx_status", "note"])
ReverseSave(p) ==
    /\ pc[p] = "rev_save"
    /\ LET id == loc[p].tx
       IN IF rows[id].pstatus # PENDING
          THEN /\ IF loc[p].caller = "sweep"
                  THEN UNCHANGED <<rows, wallets>>
                  ELSE /\ rows' = CommittedRows(p, rows)
                       /\ wallets' = CommittedWallets(p, wallets)
               /\ ReverseReturn(p, rows[id].pstatus)
          ELSE /\ rows' = [rows EXCEPT ![id].pstatus = REVERSED,
                                       ![id].pnote = loc[p].reason]
               /\ pc' = [pc EXCEPT ![p] = "rev_wallet"]
               /\ UNCHANGED <<wallets, loc, log>>
    /\ UNCHANGED <<nextId, now, ticks, bal0>>

\* (faulty variant: the refund has the sign of the debit)
ReverseWalletSigned(p) ==
    /\ pc[p] = "rev_wallet"
    /\ LET id == loc[p].tx
       IN /\ WalletFree(p, rows[id].wallet)
          /\ wallets' = UpdatedBalance(p, wallets, rows[id].wallet,
                                       rows[id].delta)
    /\ pc' = [pc EXCEPT ![p] = "rev_refund"]
    /\ UNCHANGED <<rows, nextId, now, ticks, loc, log, bal0>>

\* Wallet.objects.filter(id=curr.wallet_id).update(balance=F("balance") - delta):
\* waits for the wallet row lock
ReverseWallet(p) ==
    /\ pc[p] = "rev_wallet"
    /\ LET id == loc[p].tx
       IN /\ WalletFree(p, rows[id].wallet)
          /\ wallets' = UpdatedBalance(p, wallets, rows[id].wallet,
                                       0 - rows[id].delta)
    /\ pc' = [pc EXCEPT ![p] = "rev_refund"]
    /\ UNCHANGED <<rows, nextId, now, ticks, loc, log, bal0>>

\* (faulty variant: the REFUND row copies the debit's delta)
RefundSigned(p, id, reason) ==
    CreditTransaction(p, rows[id].wallet, rows[id].delta, REFUND, COMMITTED,
                      NoKey, RefundNote(id, reason))

\* the REFUND row of the reversal of row id
Refund(p, id, reason) ==
    CreditTransaction(p, rows[id].wallet, 0 - rows[id].delta, REFUND, COMMITTED,
                      NoKey, RefundNote(id, reason))

\* CreditTransaction.objects.create(... REFUND ...) and the end of the
\* atomic block
ReverseRefund(p) ==
    /\ pc[p] = "rev_refund"
    /\ LET id == loc[p].tx
           rs == Inserted(rows, Refund(p, id, loc[p].reason))
       IN /\ nextId' = nextId + 1
          /\ IF loc[p].caller = "sweep"
             THEN /\ rows' = rs
                  /\ UNCHANGED wallets
             ELSE /\ rows' = CommittedRows(p, rs)
                  /\ wallets' = CommittedWallets(p, wallets)
          /\ ReverseReturn(p, REVERSED)
    /\ UNCHANGED <<now, ticks, bal0>>

\* (faulty variant: only the failing row's reversal is undone, as at a
\* savepoint, and the rest of the transaction commits)
ReverseFailSavepoint(p) ==
    /\ pc[p] \in {"rev_save", "rev_wallet", "rev_refund"}
    /\ rows[loc[p].tx].lock = p
    /\ pc[p] = "rev_save" => rows[loc[p].tx].pstatus = PENDING
    /\ LET id == loc[p].tx
           w == rows[id].wallet
       IN /\ rows' = CommittedRows(p,
                        [rows EXCEPT ![id].pstatus = rows[id].tx_status,
                                     ![id].pnote = rows[id].note])
          /\ wallets' = CommittedWallets(p,
                           IF pc[p] = "rev_refund"
                           THEN [wallets EXCEPT ![w].pbalance =
                                    wallets[w].pbalance + rows[id].delta]
                           ELSE wallets)
    /\ pc' = [pc EXCEPT ![p] = "idle"]
    /\ loc' = [loc EXCEPT ![p] = Loc0]
    /\ log' = log \cup {[Entry(p, "IntegrityError", loc[p].tx)
                            EXCEPT !.how = pc[p]]}
    /\ UNCHANGED <<nextId, now, ticks, bal0>>

\* curr.save(...), the wallet update or the REFUND insert raises (a database
\* error): the exception leaves the atomic block - inside a sweep batch the
\* batch's block too - which rolls back, and reaches the caller
ReverseFail(p) ==
    /\ pc[p] \in {"rev_save", "rev_wallet", "rev_refund"}
    /\ rows[loc[p].tx].lock = p
    /\ pc[p] = "rev_save" => rows[loc[p].tx].pstatus = PENDING
    /\ rows' = RolledBackRows(p, rows)
    /\ wallets' = RolledBackWallets(p, wallets)
    /\ pc' = [pc EXCEPT ![p] = "idle"]
    /\ loc' = [loc EXCEPT ![p] = Loc0]
    /\ log' = log \cup {[Entry(p, "IntegrityError", loc[p].tx)
                            EXCEPT !.how = pc[p]]}
    /\ UNCHANGED <<nextId, now, ticks, bal0>>

ReverseSteps(p) ==
    \/ ReverseSelect(p)
    \/ ReverseSave(p)
    \/ ReverseWallet(p)
    \/ ReverseRefund(p)

(* ---------------------------------------------------------------------- *)
(* top_up                                                                  *)
(* ---------------------------------------------------------------------- *)

TopUpCall(p, w, a) ==
    /\ pc[p] = "idle"
    /\ Started < MaxOps
    /\ pc' = [pc EXCEPT ![p] = "top_validate"]
    /\ loc' = [loc EXCEPT ![p] = [Loc0 EXCEPT !.op = "top_up", !.wallet = w,
                                              !.amount = a]]
    /\ UNCHANGED <<wallets, rows, nextId, now, ticks, log, bal0>>

TopUpValidate(p) ==
    /\ pc[p] = "top_validate"
    /\ IF loc[p].amount <= 0
       THEN Done(p, "ValueError", NoTx)
       ELSE /\ pc' = [pc EXCEPT ![p] = "top_wallet"]
            /\ UNCHANGED <<loc, log>>
    /\ UNCHANGED <<wallets, rows, nextId, now, ticks, bal0>>

\* (faulty variant: the balance is read and written back without the row
\* lock - a read-modify-write instead of an UPDATE with F("balance"))
TopUpWalletRacy(p) ==
    /\ pc[p] = "top_wallet"
    /\ wallets' = [wallets EXCEPT ![loc[p].wallet].pbalance =
                                     wallets[loc[p].wallet].balance + loc[p].amount,
                                 ![loc[p].wallet].lock = p]
    /\ pc' = [pc EXCEPT ![p] = "top_create"]
    /\ UNCHANGED <<rows, nextId, now, ticks, loc, log, bal0>>

\* (faulty variant: the CREDIT row is written without the balance update)
TopUpWalletNone(p) ==
    /\ pc[p] = "top_wallet"
    /\ WalletFree(p, loc[p].wallet)
    /\ pc' = [pc EXCEPT ![p] = "top_create"]
    /\ UNCHANGED <<wallets, rows, nextId, now, ticks, loc, log, bal0>>

\* Wallet.objects.filter(id=wallet.id).update(balance=F("balance") + amount)
TopUpWallet(p) ==
    /\ pc[p] = "top_wallet"
    /\ WalletFree(p, loc[p].wallet)
    /\ wallets' = UpdatedBalance(p, wallets, loc[p].wallet, loc[p].amount)
    /\ pc' = [pc EXCEPT ![p] = "top_create"]
    /\ UNCHANGED <<rows, nextId, now, ticks, loc, log, bal0>>

\* CreditTransaction.objects.create(... CREDIT ...) and the end of the
\* atomic block
TopUpCreate(p) ==
    /\ pc[p] = "top_create"
    /\ LET rec == CreditTransaction(p, loc[p].wallet, loc[p].amount, CREDIT,
                                    COMMITTED, NoKey, "top-up")
           rs == Inserted(rows, rec)
       IN /\ nextId' = nextId + 1
          /\ rows' = CommittedRows(p, rs)
          /\ wallets' = CommittedWallets(p, wallets)
          /\ Done(p, "ok", nextId)
    /\ UNCHANGED <<now, ticks, bal0>>

\* CreditTransaction.objects.create raises (a database error): the exception
\* leaves the atomic block, which rolls back, and reaches the caller
TopUpFail(p) ==
    /\ pc[p] = "top_create"
    /\ rows' = RolledBackRows(p, rows)
    /\ wallets' = RolledBackWallets(p, wallets)
    /\ pc' = [pc EXCEPT ![p] = "idle"]
    /\ loc' = [loc EXCEPT ![p] = Loc0]
    /\ log' = log \cup {[Entry(p, "IntegrityError", NoTx) EXCEPT !.how = pc[p]]}
    /\ UNCHANGED <<nextId, now, ticks, bal0>>

TopUpSteps(p) ==
    \/ TopUpValidate(p)
    \/ TopUpWallet(p)
    \/ TopUpCreate(p)

(* ---------------------------------------------------------------------- *)
(* sweep_stale_reservations                                                *)
(* ---------------------------------------------------------------------- *)

Min(S) == CHOOSE x \in S : \A y \in S : x <= y

\* the first n elements of S in ascending order
RECURSIVE FirstN(_, _)
FirstN(S, n) ==
    IF S = {} \/ n <= 0 THEN <<>>
    ELSE <<Min(S)>> \o FirstN(S \ {Min(S)}, n - 1)

\* (faulty variant: a row created exactly at the cutoff counts as stale)
StaleInclusive(cutoff) ==
    {id \in Ledger : /\ rows[id].tx_status = PENDING
                     /\ rows[id].created_at <= cutoff
                     /\ rows[id].lock = NoProc}

\* (faulty variant: rows locked by another transaction are not skipped)
StaleNoSkip(cutoff) ==
    {id \in Ledger : /\ rows[id].tx_status = PENDING
                     /\ rows[id].created_at < cutoff}

\* filter(tx_status=PENDING, created_at__lt=cutoff), rows locked by another
\* transaction skipped
Stale(cutoff) ==
    {id \in Ledger : /\ rows[id].tx_status = PENDING
                     /\ rows[id].created_at < cutoff
                     /\ rows[id].lock = NoProc}

SweepCall(p, c) ==
    /\ pc[p] = "idle"
    /\ Started < MaxOps
    /\ pc' = [pc EXCEPT ![p] = "sw_select"]
    /\ loc' = [loc EXCEPT ![p] = [Loc0 EXCEPT !.op = "sweep", !.chunk = c,
                                              !.cutoff = now - TTL]]
    /\ UNCHANGED <<wallets, rows, nextId, now, ticks, log, bal0>>

\* list(qs) with select_for_update(skip_locked=True).order_by("id")[:chunk];
\* an empty batch ends the loop and the call returns total
SweepSelect(p) ==
    /\ pc[p] = "sw_select"
    /\ LET batch == FirstN(Stale(loc[p].cutoff), loc[p].chunk)
       IN IF batch = <<>>
          THEN /\ Done(p, "ok", NoTx)
               /\ UNCHANGED rows
          ELSE /\ rows' = [id \in DOMAIN rows |->
                             IF \E i \in 1..Len(batch) : batch[i] = id
                             THEN [rows[id] EXCEPT !.lock = p] ELSE rows[id]]
               /\ pc' = [pc EXCEPT ![p] = "rev_select"]
               /\ loc' = [loc EXCEPT ![p].batch = batch, ![p].blen = Len(batch),
                                     ![p].tx = batch[1], ![p].caller = "sweep",
                                     ![p].reason = "expired"]
               /\ UNCHANGED log
    /\ UNCHANGED <<wallets, nextId, now, ticks, bal0>>

\* (faulty variant: the call returns after its first batch)
SweepCommitBreak(p) ==
    /\ pc[p] = "sw_commit"
    /\ rows' = CommittedRows(p, rows)
    /\ wallets' = CommittedWallets(p, wallets)
    /\ pc' = [pc EXCEPT ![p] = "idle"]
    /\ loc' = [loc EXCEPT ![p] = Loc0]
    /\ log' = log \cup {[Entry(p, "ok", NoTx)
                            EXCEPT !.total = loc[p].total + loc[p].blen,
                                   !.reason = ""]}
    /\ UNCHANGED <<nextId, now, ticks, bal0>>

\* end of the batch's atomic block, then total += len(batch)
SweepCommit(p) ==
    /\ pc[p] = "sw_commit"
    /\ rows' = CommittedRows(p, rows)
    /\ wallets' = CommittedWallets(p, wallets)
    /\ pc' = [pc EXCEPT ![p] = "sw_select"]
    /\ loc' = [loc EXCEPT ![p].total = loc[p].total + loc[p].blen,
                          ![p].blen = 0, ![p].caller = "top", ![p].reason = ""]
    /\ UNCHANGED <<nextId, now, ticks, log, bal0>>

SweepSteps(p) ==
    \/ SweepSelect(p)
    \/ SweepCommit(p)

\* the wall clock
TickSteps == {TTL, TTL + 1}

Tick ==
    /\ ticks < MaxTicks
    /\ \E d \in TickSteps : now' = now + d
    /\ ticks' = ticks + 1
    /\ UNCHANGED <<wallets, rows, nextId, pc, loc, log, bal0>>

(* ---------------------------------------------------------------------- *)
(* charge_one_credit                                                       *)
(* ---------------------------------------------------------------------- *)

Statuses == {199, 200, 399, 400}

\* getattr(response, "status_code", 500)
StatusCode(outcome, status) == IF outcome = "response" THEN status ELSE 500

\* (faulty variant: 400 counts as a success)
SuccessLoose(code) == 200 <= code /\ code <= 400

\* 200 <= status_code < 400
Success(code) == 200 <= code /\ code < 400

\* f"http {status_code}"
HttpReason(code) ==
    CASE code = 199 -> "http 199"
      [] code = 200 -> "http 200"
      [] code = 399 -> "http 399"
      [] code = 400 -> "http 400"
      [] code = 500 -> "http 500"

Requests ==
    Cardinality({e \in log : e.op = "request"})
        + Cardinality({p \in Procs : loc[p].op = "request"})

RequestCall(p, w, k) ==
    /\ pc[p] = "idle"
    /\ Started < MaxOps
    /\ Requests < MaxRequests
    /\ pc' = [pc EXCEPT ![p] = "wr_wallet"]
    /\ loc' = [loc EXCEPT ![p] = [Loc0 EXCEPT !.op = "request", !.wallet = w,
                                              !.key = k]]
    /\ UNCHANGED <<wallets, rows, nextId, now, ticks, log, bal0>>

\* get_wallet(request); without a wallet the answer is 401, else reserve
\* is called with amount=1
WrapGetWallet(p) ==
    /\ pc[p] = "wr_wallet"
    /\ IF loc[p].wallet = NoWallet
       THEN Done(p, "401", NoTx)
       ELSE /\ pc' = [pc EXCEPT ![p] = "res_validate"]
            /\ loc' = [loc EXCEPT ![p].caller = "wrap", ![p].amount = 1]
            /\ UNCHANGED log
    /\ UNCHANGED <<wallets, rows, nextId, now, ticks, bal0>>

\* the wrapper calls commit_reservation(tx) or reverse_reservation(tx, reason)
\* after the handler ended with outcome o and status code
WrapSettle(p, o, code) ==
    IF o # "raise" /\ Success(code)
    THEN /\ pc' = [pc EXCEPT ![p] = "com_select"]
         /\ loc' = [loc EXCEPT ![p].outcome = o, ![p].status = code,
                               ![p].ncommit = loc[p].ncommit + 1]
         /\ UNCHANGED log
    ELSE /\ pc' = [pc EXCEPT ![p] = "rev_select"]
         /\ loc' = [loc EXCEPT ![p].outcome = o, ![p].status = code,
                               ![p].nreverse = loc[p].nreverse + 1,
                               ![p].reason = IF o = "raise" THEN "exception"
                                             ELSE HttpReason(code)]
         /\ UNCHANGED log

Outcomes == {"response", "nostatus", "raise"}

\* (faulty variant: no except clause, an exception of the handler leaves the wrapper
\* at once)
WrapHandlerNoExcept(p) ==
    /\ pc[p] = "wr_handler"
    /\ \E o \in Outcomes, s \in Statuses :
          /\ o # "response" => s = 200
          /\ IF o = "raise"
             THEN /\ pc' = [pc EXCEPT ![p] = "idle"]
                  /\ loc' = [loc EXCEPT ![p] = Loc0]
                  /\ log' = log \cup {[Entry(p, o, loc[p].tx) EXCEPT !.status = 500]}
             ELSE WrapSettle(p, o, StatusCode(o, s))
    /\ UNCHANGED <<wallets, rows, nextId, now, ticks, bal0>>

\* view_func(request) returns a response (with or without status_code) or
\* raises an Exception; the wrapper then calls commit or reverse
WrapHandler(p) ==
    /\ pc[p] = "wr_handler"
    /\ \E o \in Outcomes, s \in Statuses :
          /\ o # "response" => s = 200
          /\ WrapSettle(p, o, StatusCode(o, s))
    /\ UNCHANGED <<wallets, rows, nextId, now, ticks, bal0>>

WrapSteps(p) ==
    \/ WrapGetWallet(p)
    \/ WrapHandler(p)

(* ---------------------------------------------------------------------- *)
(* Specifications                                                          *)
(* ---------------------------------------------------------------------- *)

Init ==
    /\ bal0 \in [Wallets -> 0..MaxBal]
    /\ wallets = [w \in Wallets |-> Wallet(bal0[w])]
    /\ rows = << >>
    /\ nextId = 1
    /\ now = 0
    /\ ticks = 0
    /\ pc = [p \in Procs |-> "idle"]
    /\ loc = [p \in Procs |-> Loc0]
    /\ log = {}

\* the services called directly, in any interleaving
Call(p) ==
    \/ \E w \in Wallets, n \in Amounts, k \in Keys : ReserveCall(p, w, n, k)
    \/ \E id \in Ledger : CommitCall(p, id)
    \/ \E id \in Ledger, r \in Reasons : ReverseCall(p, id, r)
    \/ \E w \in Wallets, a \in Amounts : TopUpCall(p, w, a)
    \/ \E c \in 1..MaxChunk : SweepCall(p, c)

Next ==
    \/ \E p \in Workers : Call(p)
    \/ \E p \in Workers : ReserveSteps(p)
    \/ \E p \in Workers : CommitSteps(p)
    \/ \E p \in Workers : ReverseSteps(p)
    \/ \E p \in Workers : TopUpSteps(p)
    \/ \E p \in Workers : SweepSteps(p)
    \/ Tick

Spec == Init /\ [][Next]_vars

\* reserve alone, called from every process, with invalid amounts and
\* falsy keys among the inputs
NextReserve ==
    \/ \E p \in Procs, w \in Wallets, n \in AmountInputs, k \in KeyInputs :
          ReserveCall(p, w, n, k)
    \/ \E p \in Procs : ReserveSteps(p)

SpecReserve == Init /\ [][NextReserve]_vars

\* requests through the decorator, with the sweeper beside them
NextWrap ==
    \/ \E p \in Workers, w \in Wallets \cup {NoWallet}, k \in Keys :
          RequestCall(p, w, k)
    \/ \E p \in Workers, c \in 1..MaxChunk : SweepCall(p, c)
    \/ \E p \in Workers : WrapSteps(p)
    \/ \E p \in Workers : ReserveSteps(p)
    \/ \E p \in Workers : CommitSteps(p)
    \/ \E p \in Workers : ReverseSteps(p)
    \/ \E p \in Workers : SweepSteps(p)
    \/ Tick

SpecWrap == Init /\ [][NextWrap]_vars

\* the services with database errors injected into commit and reverse
NextFault ==
    \/ Next
    \/ \E p \in Workers : CommitFail(p)
    \/ \E p \in Workers : ReverseFail(p)

SpecFault == Init /\ [][NextFault]_vars

\* one sweeper running alone over a ledger of reservations made (and some
\* committed) earlier, on several wallets, some created before the cutoff
\* and some at it
SweepWallets == 1..NumSweepWallets

InitSweep ==
    /\ now = TTL + 1
    /\ bal0 \in [SweepWallets -> 0..MaxBal]
    /\ wallets = [w \in SweepWallets |-> Wallet(bal0[w])]
    /\ \E n \in 0..MaxStale :
          /\ rows \in [1..n ->
                {[TxDefaults(NoProc, w, a, NoKey)
                     EXCEPT !.created_at = t, !.tx_status = st, !.pstatus = st] :
                   w \in SweepWallets, a \in 1..MaxAmount, t \in {0, 1},
                   st \in {PENDING, COMMITTED}}]
          /\ nextId = n + 1
    /\ ticks = 0
    /\ pc = [p \in Procs |-> "idle"]
    /\ loc = [p \in Procs |-> Loc0]
    /\ log = {}

NextSweep ==
    \/ \E c \in 1..MaxChunk : SweepCall(1, c)
    \/ SweepSteps(1)
    \/ ReverseSteps(1)

SpecSweep == InitSweep /\ [][NextSweep]_vars

\* commit and reverse calls from every process on a reservation that a
\* reserve of n has left PENDING
InitSettle ==
    /\ bal0 \in [Wallets -> 1..MaxBal]
    /\ now = 0
    /\ \E w \in Wallets, n \in 1..MaxAmount, k \in Keys :
          /\ n <= bal0[w]
          /\ wallets = [v \in Wallets |->
                          Wallet(IF v = w THEN bal0[v] - n ELSE bal0[v])]
          /\ rows = [id \in {1} |-> TxDefaults(NoProc, w, n, k)]
    /\ nextId = 2
    /\ ticks = 0
    /\ pc = [p \in Procs |-> "idle"]
    /\ loc = [p \in Procs |-> Loc0]
    /\ log = {}

NextSettle ==
    \/ \E p \in Procs, id \in Ledger : CommitCall(p, id)
    \/ \E p \in Procs, id \in Ledger, r \in Reasons : ReverseCall(p, id, r)
    \/ \E p \in Procs : CommitSteps(p)
    \/ \E p \in Procs : ReverseSteps(p)

SpecSettle == InitSettle /\ [][NextSettle]_vars

(* ---------------------------------------------------------------------- *)
(* The database's deadlock detector and a transaction that only holds a   *)
(* row lock                                                                *)
(* ---------------------------------------------------------------------- *)

\* the transaction whose end the next statement of p waits for, if any
WaitsFor(p) ==
    CASE pc[p] \in {"com_select", "rev_select", "hold_select"} ->
            IF rows[loc[p].tx].lock \notin {NoProc, p} THEN rows[loc[p].tx].lock
            ELSE IF rows[loc[p].tx].xmin \notin {NoProc, p}
            THEN rows[loc[p].tx].xmin ELSE NoProc
      [] pc[p] = "rev_wallet" ->
            IF WalletFree(p, rows[loc[p].tx].wallet) THEN NoProc
            ELSE wallets[rows[loc[p].tx].wallet].lock
      [] pc[p] \in {"res_dec", "top_wallet"} ->
            IF WalletFree(p, loc[p].wallet) THEN NoProc
            ELSE wallets[loc[p].wallet].lock
      [] OTHER -> NoProc

\* q is reached from p by following n waits-for edges
RECURSIVE WaitChain(_, _, _)
WaitChain(p, q, n) ==
    /\ n > 0
    /\ WaitsFor(p) # NoProc
    /\ \/ WaitsFor(p) = q
       \/ WaitChain(WaitsFor(p), q, n - 1)

Deadlocked(p) == WaitChain(p, p, NumProcs)

\* the database finds p in a cycle of lock waits and aborts its transaction
\* ("deadlock detected"): everything p wrote in it is rolled back, its locks
\* are released, and the error leaves the call
DeadlockAbort(p) ==
    /\ Deadlocked(p)
    /\ rows' = RolledBackRows(p, rows)
    /\ wallets' = RolledBackWallets(p, wallets)
    /\ pc' = [pc EXCEPT ![p] = "idle"]
    /\ loc' = [loc EXCEPT ![p] = Loc0]
    /\ log' = log \cup {[Entry(p, "OperationalError", loc[p].tx)
                            EXCEPT !.how = "deadlock"]}
    /\ UNCHANGED <<nextId, now, ticks, bal0>>

\* with transaction.atomic(): select_for_update().get(pk=id) - a transaction
\* that takes the row lock, holds it for a while and ends without a write
HoldCall(p, id) ==
    /\ pc[p] = "idle"
    /\ Started < MaxOps
    /\ id \in Ledger
    /\ pc' = [pc EXCEPT ![p] = "hold_select"]
    /\ loc' = [loc EXCEPT ![p] = [Loc0 EXCEPT !.op = "hold", !.tx = id,
                                              !.wallet = rows[id].wallet]]
    /\ UNCHANGED <<wallets, rows, nextId, now, ticks, log, bal0>>

HoldSelect(p) ==
    /\ pc[p] = "hold_select"
    /\ RowFree(p, loc[p].tx)
    /\ rows' = [rows EXCEPT ![loc[p].tx].lock = p]
    /\ pc' = [pc EXCEPT ![p] = "hold_release"]
    /\ UNCHANGED <<wallets, nextId, now, ticks, loc, log, bal0>>

HoldRelease(p) ==
    /\ pc[p] = "hold_release"
    /\ rows' = CommittedRows(p, rows)
    /\ wallets' = CommittedWallets(p, wallets)
    /\ Done(p, "ok", loc[p].tx)
    /\ UNCHANGED <<nextId, now, ticks, bal0>>

HoldSteps(p) ==
    \/ HoldSelect(p)
    \/ HoldRelease(p)

\* sweeps from several workers at once over reservations left PENDING on
\* several wallets (each of one credit, the wallet's whole balance reserved),
\* some created before the cutoff and some at it
InitPending(m) ==
    /\ now = TTL + 1
    /\ \E n \in 0..m :
          /\ rows \in [1..n ->
                {[TxDefaults(NoProc, w, 1, NoKey) EXCEPT !.created_at = t] :
                   w \in SweepWallets, t \in {0, 1}}]
          /\ nextId = n + 1
    /\ bal0 = [w \in SweepWallets |->
                 Cardinality({id \in DOMAIN rows : rows[id].wallet = w})]
    /\ wallets = [w \in SweepWallets |-> Wallet(0)]
    /\ ticks = 0
    /\ pc = [p \in Procs |-> "idle"]
    /\ loc = [p \in Procs |-> Loc0]
    /\ log = {}

InitSweeps == InitPending(MaxPending)

NextSweeps ==
    \/ \E p \in Workers, c \in 1..MaxChunk : SweepCall(p, c)
    \/ \E p \in Workers : SweepSteps(p)
    \/ \E p \in Workers : ReverseSteps(p)
    \/ \E p \in Workers : DeadlockAbort(p)

SpecSweeps == InitSweeps /\ [][NextSweeps]_vars

\* one sweeper, and a second process that reverses or just locks a row
\* beside it
Sweeper == 1
Other == 2

NextSkip ==
    \/ \E c \in 1..MaxChunk : SweepCall(Sweeper, c)
    \/ SweepSteps(Sweeper)
    \/ \E id \in Ledger : ReverseCall(Other, id, "r1")
    \/ \E id \in Ledger : HoldCall(Other, id)
    \/ HoldSteps(Other)
    \/ \E p \in {Sweeper, Other} : ReverseSteps(p)

InitSkip == InitPending(MaxStale)

SpecSkip == InitSkip /\ [][NextSkip]_vars

(* ---------------------------------------------------------------------- *)
(* Requests whose process may die, and the periodic sweep of celery beat  *)
(* ---------------------------------------------------------------------- *)

\* the process serving the request dies while the handler runs: reserve has
\* committed, neither commit nor reverse is ever called
Crash(p) ==
    /\ pc[p] = "wr_handler"
    /\ pc' = [pc EXCEPT ![p] = "idle"]
    /\ loc' = [loc EXCEPT ![p] = Loc0]
    /\ log' = log \cup {Entry(p, "crash", loc[p].tx)}
    /\ UNCHANGED <<wallets, rows, nextId, now, ticks, bal0>>

\* the worker that runs the scheduled task
Beat == NumProcs

\* sweep_pending_tx(chunk_size=500)
BeatChunk == 500

\* beat sends sweep_pending_tx every 60 seconds, again and again; the task
\* calls sweep_stale_reservations, and what the previous run returned is
\* dropped (result_backend=None)
BeatCall ==
    /\ pc[Beat] = "idle"
    /\ pc' = [pc EXCEPT ![Beat] = "sw_select"]
    /\ loc' = [loc EXCEPT ![Beat] = [Loc0 EXCEPT !.op = "sweep",
                                                 !.chunk = BeatChunk,
                                                 !.cutoff = now - TTL]]
    /\ log' = {e \in log : e.proc # Beat}
    /\ UNCHANGED <<wallets, rows, nextId, now, ticks, bal0>>

\* the process that serves the requests, one after the other
Server == 1

NextCrash ==
    \/ \E k \in Keys : RequestCall(Server, 1, k)
    \/ WrapSteps(Server)
    \/ ReserveSteps(Server)
    \/ CommitSteps(Server)
    \/ Crash(Server)
    \/ \E p \in {Server, Beat} : ReverseSteps(p)
    \/ BeatCall
    \/ SweepSteps(Beat)
    \/ Tick

\* the task keeps being scheduled and run, and a reserve, commit or reverse
\* that has begun runs to its end (no transaction stays open forever)
FairCrash ==
    /\ WF_vars(BeatCall)
    /\ WF_vars(SweepSteps(Beat) \/ ReverseSteps(Beat))
    /\ WF_vars(ReserveSteps(Server) \/ CommitSteps(Server)
                  \/ ReverseSteps(Server))

SpecCrash == Init /\ [][NextCrash]_vars /\ FairCrash

(* ---------------------------------------------------------------------- *)
(* ApiKeyMiddleware and the requests of the API                            *)
(* ---------------------------------------------------------------------- *)

\* the ApiKey table: an active and an inactive key of wallet 1
ApiKeyRows ==
    {[key |-> "k_active", wallet |-> 1, is_active |-> TRUE],
     [key |-> "k_inactive", wallet |-> 1, is_active |-> FALSE]}

\* the X-API-Key header: missing, blank, unknown, inactive, active
ApiKeyInputs == {NoKey, "", "nope", "k_inactive", "k_active"}

\* (faulty variant: is_active is not looked at)
ResolveWalletAny(h) ==
    IF h = NoKey \/ h = "" THEN NoWallet
    ELSE LET found == {r \in ApiKeyRows : r.key = h}
         IN IF found = {} THEN NoWallet ELSE (CHOOSE r \in found : TRUE).wallet

\* ApiKeyMiddleware.__call__: request.wallet is None unless the header names
\* an active key
ResolveWallet(h) ==
    IF h = NoKey \/ h = "" THEN NoWallet
    ELSE LET found == {r \in ApiKeyRows : r.key = h /\ r.is_active}
         IN IF found = {} THEN NoWallet ELSE (CHOOSE r \in found : TRUE).wallet

\* a request with X-API-Key h and Idempotency-Key k reaches the wrapper
MiddlewareCall(p, h, k) ==
    /\ pc[p] = "idle"
    /\ Started < MaxOps
    /\ Requests < MaxRequests
    /\ pc' = [pc EXCEPT ![p] = "wr_wallet"]
    /\ loc' = [loc EXCEPT ![p] = [Loc0 EXCEPT !.op = "request",
                                              !.wallet = ResolveWallet(h),
                                              !.key = k, !.apikey = h]]
    /\ UNCHANGED <<wallets, rows, nextId, now, ticks, log, bal0>>

\* requests through the middleware and the decorator, from two workers
NextApi ==
    \/ \E p \in Workers, h \in ApiKeyInputs, k \in KeyInputs :
          MiddlewareCall(p, h, k)
    \/ \E p \in Workers : WrapSteps(p)
    \/ \E p \in Workers : ReserveSteps(p)
    \/ \E p \in Workers : CommitSteps(p)
    \/ \E p \in Workers : ReverseSteps(p)

SpecApi == Init /\ [][NextApi]_vars

\* top_up alone, called from every process, with zero and a negative amount
\* among the inputs and database errors injected into the ledger insert
NextTopUp ==
    \/ \E p \in Procs, w \in Wallets, a \in AmountInputs : TopUpCall(p, w, a)
    \/ \E p \in Procs : TopUpSteps(p)
    \/ \E p \in Procs : TopUpFail(p)

SpecTopUp == Init /\ [][NextTopUp]_vars

\* the services on two wallets, one credit at a time
InitIso ==
    /\ bal0 \in [SweepWallets -> 0..MaxBal]
    /\ wallets = [w \in SweepWallets |-> Wallet(bal0[w])]
    /\ rows = << >>
    /\ nextId = 1
    /\ now = 0
    /\ ticks = 0
    /\ pc = [p \in Procs |-> "idle"]
    /\ loc = [p \in Procs |-> Loc0]
    /\ log = {}

CallIso(p) ==
    \/ \E w \in SweepWallets, k \in Keys : ReserveCall(p, w, 1, k)
    \/ \E id \in Ledger : CommitCall(p, id)
    \/ \E id \in Ledger : ReverseCall(p, id, "r1")
    \/ \E w \in SweepWallets : TopUpCall(p, w, 1)
    \/ SweepCall(p, MaxChunk)

NextIso ==
    \/ \E p \in Workers : CallIso(p)
    \/ \E p \in Workers : ReserveSteps(p)
    \/ \E p \in Workers : CommitSteps(p)
    \/ \E p \in Workers : ReverseSteps(p)
    \/ \E p \in Workers : TopUpSteps(p)
    \/ \E p \in Workers : SweepSteps(p)
    \/ Tick

SpecIso == InitIso /\ [][NextIso]_vars

\* one sweeper over reservations left PENDING, with database errors injected
\* into the reversal of a batch row
NextSweepFault ==
    \/ \E c \in 1..MaxChunk : SweepCall(Sweeper, c)
    \/ SweepSteps(Sweeper)
    \/ ReverseSteps(Sweeper)
    \/ ReverseFail(Sweeper)

SpecSweepFault == InitSweeps /\ [][NextSweepFault]_vars

(* ---------------------------------------------------------------------- *)
(* Properties                                                              *)
(* ---------------------------------------------------------------------- *)

RECURSIVE Sum(_, _)
Sum(f, S) == IF S = {} THEN 0
             ELSE LET x == CHOOSE y \in S : TRUE IN f[x] + Sum(f, S \ {x})

\* the committed image of the ledger and of the balances
Committed(rs) ==
    [id \in LedgerOf(rs) |->
        [wallet |-> rs[id].wallet, delta |-> rs[id].delta,
         tx_type |-> rs[id].tx_type, tx_status |-> rs[id].tx_status,
         idempotency_key |-> rs[id].idempotency_key, note |-> rs[id].note,
         created_at |-> rs[id].created_at]]

Balances(ws) == [w \in Wallets |-> ws[w].balance]

ReserveCalls == {e \in log : e.op = "reserve"}
AllIdle == \A p \in Procs : pc[p] = "idle"

\* C1: in every committed state every wallet's balance is >= 0, whatever
\* reserve, commit, reverse, top_up and sweep calls (failing ones included)
\* have run or are running.
C1_BalanceNonNegative == \A w \in Wallets : wallets[w].balance >= 0

\* a wallet that started funded is down to 0 and a reserve on it has failed
C1_Witness ==
    \E w \in Wallets :
        /\ bal0[w] > 0
        /\ wallets[w].balance = 0
        /\ \E e \in ReserveCalls : e.wallet = w /\ e.res = "InsufficientCredits"

\* C2: every request that obtained a reservation leaves it COMMITTED when
\* the handler answered with a status in [200, 400) and REVERSED when the
\* handler answered anything else or raised, whatever other requests (also
\* with the same Idempotency-Key) and sweeps ran beside it.
C2_SettledByOwnOutcome ==
    \A e \in log :
        (e.op = "request" /\ e.tx # NoTx) =>
            rows[e.tx].tx_status =
                (IF e.res = "response" /\ 200 <= e.status /\ e.status < 400
                 THEN COMMITTED ELSE REVERSED)

\* C3: once reserve has succeeded, on every exit of the wrapper exactly one
\* of commit and reverse has been invoked on the reservation.
C3_ExactlyOneSettle ==
    /\ \A e \in log :
          (e.op = "request" /\ e.tx # NoTx) => e.ncommit + e.nreverse = 1
    /\ \A p \in Procs :
          /\ pc[p] = "wr_handler" => loc[p].ncommit + loc[p].nreverse = 0
          /\ (loc[p].op = "request" /\ pc[p] \in {"com_select", "com_save"})
                => (loc[p].ncommit = 1 /\ loc[p].nreverse = 0)
          /\ (loc[p].op = "request" /\ pc[p] \in {"rev_select", "rev_save",
                                                  "rev_wallet", "rev_refund"})
                => (loc[p].ncommit = 0 /\ loc[p].nreverse = 1)

\* one request left through commit and one through the except clause
C3_Witness ==
    \E e1, e2 \in log :
        /\ e1.op = "request" /\ e1.res = "response" /\ e1.ncommit = 1
        /\ e2.op = "request" /\ e2.res = "raise" /\ e2.nreverse = 1

\* C4: a reserve that inserted a new row succeeds iff balance >= amount at
\* its conditional decrement; on success the committed balance goes down by
\* exactly the amount and exactly one row, a PENDING DEBIT of -amount, joins
\* the ledger; otherwise it fails with InsufficientCredits.
C4_ReserveIffSufficient ==
    [][\A p \in Procs :
        LET w == loc[p].wallet
            n == loc[p].amount
            tx == loc[p].tx
        IN /\ (pc[p] = "res_dec" /\ pc'[p] # "res_dec") =>
                 pc'[p] = (IF wallets[w].balance >= n
                           THEN "res_commit" ELSE "res_rollback")
           /\ (pc[p] = "res_commit" /\ pc'[p] # "res_commit") =>
                 /\ wallets'[w].balance = wallets[w].balance - n
                 /\ tx \notin Ledger
                 /\ LedgerOf(rows') = Ledger \cup {tx}
                 /\ rows'[tx].wallet = w
                 /\ rows'[tx].delta = 0 - n
                 /\ rows'[tx].tx_type = DEBIT
                 /\ rows'[tx].tx_status = PENDING
                 /\ \E e \in log' \ log : e.res = "ok" /\ e.tx = tx
           /\ (pc[p] = "res_rollback" /\ pc'[p] # "res_rollback") =>
                 \E e \in log' \ log : e.res = "InsufficientCredits"
      ]_vars

\* a reserve of the whole balance succeeded, leaving 0, and a later new
\* reservation on the wallet failed
C4_Witness ==
    \E e1, e2 \in ReserveCalls :
        /\ e1.res = "ok" /\ e1.how = "created" /\ e1.amount = bal0[e1.wallet]
        /\ e2.res = "InsufficientCredits" /\ e2.wallet = e1.wallet
        /\ e2.proc = e1.proc /\ e2.seq > e1.seq
        /\ wallets[e1.wallet].balance = 0

\* C5: reserve(w, n, K) followed by reserve(w, n, K), K non-empty, n > 0:
\* the second call returns the row of the first, one row with (w, K) exists,
\* and the balance was decremented for it once.
C5_SequentialIdempotence ==
    \A e1, e2 \in ReserveCalls :
        (/\ e1.proc = e2.proc /\ e2.seq = e1.seq + 1
         /\ e1.wallet = e2.wallet /\ e1.amount = e2.amount /\ e1.key = e2.key
         /\ e1.key \notin {NoKey, ""} /\ e1.amount > 0
         /\ e1.res = "ok")
        => /\ e2.res = "ok"
           /\ e2.tx = e1.tx
           /\ e2.how # "created"
           /\ Cardinality({id \in DOMAIN rows :
                             /\ rows[id].wallet = e1.wallet
                             /\ rows[id].idempotency_key = e1.key}) = 1
           /\ Cardinality({e \in ReserveCalls :
                             e.tx = e1.tx /\ e.how = "created"}) = 1
           /\ wallets[e1.wallet].balance =
                 bal0[e1.wallet]
                   + Sum([id \in Ledger |-> rows[id].delta],
                         {id \in Ledger : rows[id].wallet = e1.wallet})

\* one process reserved with a key, debiting the wallet, and reserved again
C5_Witness ==
    \E e1, e2 \in ReserveCalls :
        /\ e1.proc = e2.proc /\ e2.seq = e1.seq + 1
        /\ e1.wallet = e2.wallet /\ e1.amount = e2.amount /\ e1.key = e2.key
        /\ e1.key \notin {NoKey, ""}
        /\ e1.res = "ok" /\ e1.how = "created" /\ e2.res = "ok"
        /\ wallets[e1.wallet].balance = bal0[e1.wallet] - e1.amount

\* C6: concurrent reserve calls with the same key and amount on a wallet
\* that can pay: every call succeeds with the same reservation id, one of
\* them created the row and decremented, one row with the key exists and
\* the balance is down by the amount once.
C6_SameKeyRace ==
    \A w \in Wallets, k \in KeyInputs \ {NoKey, ""}, n \in 1..MaxAmount :
        (/\ Cardinality(log) >= 2
         /\ \A e \in log : e.op = "reserve" /\ e.wallet = w /\ e.key = k
                           /\ e.amount = n
         /\ bal0[w] >= n)
        => /\ \A e \in log : e.res = "ok"
           /\ \A e1, e2 \in log : e1.tx = e2.tx
           /\ Cardinality({e \in log : e.how = "created"}) = 1
           /\ Cardinality({id \in DOMAIN rows :
                             /\ rows[id].wallet = w
                             /\ rows[id].idempotency_key = k}) = 1
           /\ wallets[w].balance = bal0[w] - n

\* every process made the call, and one of them lost the race for the
\* insert after its lookup had found nothing
C6_Witness ==
    /\ AllIdle
    /\ \A p \in Procs : \E e \in log : e.proc = p
    /\ \E e \in log : e.how = "conflict"
    /\ \A e1, e2 \in log :
          /\ e1.op = "reserve" /\ e1.key = "k1" /\ e1.res = "ok"
          /\ e1.amount = e2.amount

\* C7: at most one ledger row per (wallet, non-null idempotency_key) in
\* every state, whatever the row's status; reserves without a key create a
\* distinct row each.
C7_UniqueKey ==
    /\ \A i, j \in DOMAIN rows :
          (/\ rows[i].idempotency_key # NoKey
           /\ rows[i].wallet = rows[j].wallet
           /\ rows[i].idempotency_key = rows[j].idempotency_key) => i = j
    /\ \A e1, e2 \in ReserveCalls :
          (/\ e1 # e2 /\ e1.res = "ok" /\ e2.res = "ok"
           /\ e1.key \in {NoKey, ""} /\ e2.key \in {NoKey, ""}) => e1.tx # e2.tx

\* a keyed row has left PENDING and a later reserve with its key was
\* answered with it: still one row with that key
C7_Witness ==
    \E e \in ReserveCalls, id \in Ledger :
        /\ e.key = "k1" /\ e.how = "hit" /\ e.tx = id
        /\ rows[id].idempotency_key = "k1"
        /\ rows[id].tx_status # PENDING
        /\ Cardinality({i \in DOMAIN rows : rows[i].idempotency_key = "k1"}) = 1

\* C8: K > B concurrent keyless reserve(1) calls on a wallet of balance B:
\* exactly B succeed and K - B fail with InsufficientCredits, the balance
\* ends at 0 with B PENDING rows, and no row of a failed call persists.
C8_NoOversubscription ==
    \A w \in Wallets :
        (/\ AllIdle
         /\ \A e \in log : e.op = "reserve" /\ e.wallet = w /\ e.amount = 1
                           /\ e.key \in {NoKey, ""}
         /\ Cardinality(log) > bal0[w])
        => /\ Cardinality({e \in log : e.res = "ok"}) = bal0[w]
           /\ Cardinality({e \in log : e.res = "InsufficientCredits"})
                 = Cardinality(log) - bal0[w]
           /\ wallets[w].balance = 0
           /\ DOMAIN rows = Ledger
           /\ Cardinality(Ledger) = bal0[w]
           /\ \A id \in Ledger : rows[id].tx_status = PENDING

\* three processes reserved against a balance of 2; the call that failed had
\* inserted its row (id 2) before the second winner inserted its own (id 3)
C8_Witness ==
    /\ AllIdle
    /\ \A p \in Procs : \E e \in log : e.proc = p /\ e.amount = 1 /\ e.key = NoKey
    /\ \A w \in Wallets : bal0[w] = 2 /\ wallets[w].balance = 0
    /\ Ledger = {1, 3}

\* C9: a reserve that fails with InsufficientCredits leaves the committed
\* state as it was: no step of the call changes a committed balance or a
\* committed ledger row, and its own inserted row is gone when it raises.
C9_FailedReserveNoEffect ==
    [][\A p \in Procs :
        /\ (/\ pc[p] \in {"res_validate", "res_get", "res_create", "res_dec",
                          "res_rollback"}
            /\ pc'[p] # pc[p])
           => /\ Committed(rows') = Committed(rows)
              /\ Balances(wallets') = Balances(wallets)
        /\ (pc[p] = "res_rollback" /\ pc'[p] # pc[p])
           => /\ loc[p].tx \in DOMAIN rows
              /\ loc[p].tx \notin DOMAIN rows'
              /\ \A w \in Wallets : wallets'[w].lock # p
              /\ \E e \in log' \ log : e.res = "InsufficientCredits" /\ e.proc = p
      ]_vars

\* a keyed and a keyless reserve both failed; their ids were consumed and
\* the ledger is empty
C9_Witness ==
    /\ \E e1, e2 \in ReserveCalls :
          /\ e1.res = "InsufficientCredits" /\ e1.key = "k1"
          /\ e2.res = "InsufficientCredits" /\ e2.key = NoKey
    /\ DOMAIN rows = {}
    /\ nextId = 3
    /\ \A w \in Wallets : wallets[w].balance = bal0[w]

\* C10: reserve with amount <= 0 raises ValueError for every wallet and
\* key and changes nothing: no row is inserted and no decrement attempted;
\* a positive amount never raises it.
C10_InvalidAmount ==
    [][\A p \in Procs :
        /\ (pc[p] = "res_validate" /\ pc'[p] # pc[p] /\ loc[p].amount <= 0)
           => /\ pc'[p] = "idle"
              /\ \E e \in log' \ log : e.proc = p /\ e.res = "ValueError"
              /\ rows' = rows
              /\ wallets' = wallets
              /\ nextId' = nextId
        /\ (pc[p] = "res_validate" /\ pc'[p] # pc[p] /\ loc[p].amount > 0)
           => pc'[p] \in {"res_get", "res_create"}
        /\ pc'[p] \in {"res_get", "res_create", "res_dec", "res_commit",
                       "res_rollback"} => loc'[p].amount > 0
      ]_vars

\* calls with amount 0 and with a negative amount, with and without a key,
\* have raised ValueError
C10_Witness ==
    \E e1, e2 \in ReserveCalls :
        /\ e1.amount = 0 /\ e1.res = "ValueError" /\ e1.key = "k1"
        /\ e2.amount < 0 /\ e2.res = "ValueError" /\ e2.key = NoKey
        /\ DOMAIN rows = {} /\ nextId = 1

\* C11: commit on a PENDING reservation sets its status to COMMITTED and
\* changes nothing else: balances, the row's other fields and every other
\* ledger row stay as they are, no row is inserted, and the call returns
\* the row as COMMITTED.
C11_CommitFrame ==
    [][\A p \in Procs :
        /\ (pc[p] = "com_select" /\ pc'[p] # pc[p])
           => /\ Committed(rows') = Committed(rows)
              /\ Balances(wallets') = Balances(wallets)
              /\ DOMAIN rows' = DOMAIN rows
        /\ (/\ pc[p] = "com_save" /\ pc'[p] # pc[p]
            /\ rows[loc[p].tx].tx_status = PENDING)
           => LET id == loc[p].tx
              IN /\ rows'[id].tx_status = COMMITTED
                 /\ Committed(rows') =
                       [Committed(rows) EXCEPT ![id].tx_status = COMMITTED]
                 /\ DOMAIN rows' = DOMAIN rows
                 /\ nextId' = nextId
                 /\ Balances(wallets') = Balances(wallets)
                 /\ \E e \in log' \ log :
                       e.proc = p /\ e.res = COMMITTED /\ e.tx = id
      ]_vars

\* a commit call returned COMMITTED for the only row of the ledger, and the
\* balance is still the one the reserve left
C11_Witness ==
    \E e \in log :
        /\ e.op = "commit" /\ e.res = COMMITTED
        /\ DOMAIN rows = {e.tx}
        /\ rows[e.tx].tx_status = COMMITTED
        /\ rows[e.tx].delta < 0
        /\ wallets[rows[e.tx].wallet].balance
              = bal0[rows[e.tx].wallet] + rows[e.tx].delta

\* C12: reverse on a PENDING reservation of amount n shows nothing until
\* its atomic block ends and then, at once, the row is REVERSED with the
\* reason as note, the balance is up by n and exactly one REFUND row (same
\* wallet, delta +n, COMMITTED) has joined the ledger; reserve followed by
\* reverse leaves the balance where it started, with one DEBIT(REVERSED) and
\* one REFUND(COMMITTED).
C12_ReverseAtomic ==
    [][\A p \in Procs :
        /\ (/\ loc[p].op = "reverse" /\ pc'[p] # pc[p]
            /\ pc[p] \in {"rev_select", "rev_wallet"})
           => /\ Committed(rows') = Committed(rows)
              /\ Balances(wallets') = Balances(wallets)
        /\ (/\ loc[p].op = "reverse" /\ pc[p] = "rev_save" /\ pc'[p] # pc[p]
            /\ rows[loc[p].tx].tx_status = PENDING)
           => /\ pc'[p] = "rev_wallet"
              /\ Committed(rows') = Committed(rows)
              /\ Balances(wallets') = Balances(wallets)
        /\ (loc[p].op = "reverse" /\ pc[p] = "rev_refund" /\ pc'[p] # pc[p])
           => LET id == loc[p].tx
                  w == rows[id].wallet
                  n == 0 - rows[id].delta
                  new == LedgerOf(rows') \ Ledger
              IN /\ rows[id].tx_status = PENDING
                 /\ rows'[id].tx_status = REVERSED
                 /\ rows'[id].note = loc[p].reason
                 /\ \A i \in Ledger :
                       /\ i \in LedgerOf(rows')
                       /\ i # id => Committed(rows')[i] = Committed(rows)[i]
                 /\ rows'[id].delta = rows[id].delta
                 /\ rows'[id].wallet = w
                 /\ Cardinality(new) = 1
                 /\ \A i \in new :
                       /\ rows'[i].tx_type = REFUND
                       /\ rows'[i].tx_status = COMMITTED
                       /\ rows'[i].wallet = w
                       /\ rows'[i].delta = n
                 /\ n > 0
                 /\ wallets'[w].balance = wallets[w].balance + n
                 /\ \A v \in Wallets \ {w} :
                       wallets'[v].balance = wallets[v].balance
                 /\ \E e \in log' \ log :
                       e.proc = p /\ e.res = REVERSED /\ e.tx = id
                 /\ (/\ Cardinality(log) = 1
                     /\ \A e \in log : /\ e.op = "reserve" /\ e.how = "created"
                                        /\ e.res = "ok" /\ e.tx = id
                     /\ \A q \in Procs \ {p} : pc[q] = "idle")
                    => /\ wallets'[w].balance = bal0[w]
                       /\ Cardinality(DOMAIN rows') = 2
                       /\ \E i, j \in LedgerOf(rows') :
                             /\ rows'[i].tx_type = DEBIT
                             /\ rows'[i].tx_status = REVERSED
                             /\ rows'[j].tx_type = REFUND
                             /\ rows'[j].tx_status = COMMITTED
      ]_vars

\* reserve of 2 then reverse with reason r2: balance back at 2, the DEBIT
\* REVERSED with note r2, its REFUND of +2 COMMITTED
C12_Witness ==
    /\ AllIdle
    /\ \E e1, e2 \in log :
          /\ log = {e1, e2}
          /\ e1.op = "reserve" /\ e1.amount = 2 /\ e1.how = "created"
          /\ e2.op = "reverse" /\ e2.tx = e1.tx /\ e2.res = REVERSED
          /\ e2.reason = "r2"
          /\ rows[e1.tx].tx_status = REVERSED /\ rows[e1.tx].note = "r2"
          /\ wallets[e1.wallet].balance = 2 /\ bal0[e1.wallet] = 2
    /\ \E j \in Ledger : rows[j].tx_type = REFUND /\ rows[j].delta = 2

\* C13: a commit or reverse call that finds the reservation in a terminal
\* status changes nothing (status, note, balances, REFUND rows) and returns
\* the row in that status; so after any sequence of such calls the state is
\* the one the first call left, and every call has returned the status the
\* row still has.
C13_FirstTerminalCallWins ==
    [][/\ \A p \in Procs :
            (/\ loc[p].op \in {"commit", "reverse"}
             /\ pc[p] \in {"com_save", "rev_save"} /\ pc'[p] # pc[p]
             /\ rows[loc[p].tx].tx_status # PENDING)
            => /\ pc'[p] = "idle"
               /\ Committed(rows') = Committed(rows)
               /\ DOMAIN rows' = DOMAIN rows
               /\ nextId' = nextId
               /\ Balances(wallets') = Balances(wallets)
               /\ \E e \in log' \ log :
                     /\ e.proc = p /\ e.tx = loc[p].tx
                     /\ e.res = rows[loc[p].tx].tx_status
       /\ \A e \in log' :
            e.op \in {"commit", "reverse"}
            => /\ e.res \in {COMMITTED, REVERSED}
               /\ e.res = rows'[e.tx].tx_status
      ]_vars

\* reverse with reason r1, then reverse with reason r2 on the same row: the
\* note is still r1, one REFUND exists and the balance was restored once
C13_Witness ==
    \E e1, e2 \in log :
        /\ e1.op = "reverse" /\ e1.reason = "r1" /\ e1.res = REVERSED
        /\ e2.op = "reverse" /\ e2.reason = "r2" /\ e2.res = REVERSED
        /\ e1.proc = e2.proc /\ e2.seq > e1.seq /\ e1.tx = e2.tx
        /\ rows[e1.tx].note = "r1"
        /\ Cardinality({i \in Ledger : rows[i].tx_type = REFUND}) = 1
        /\ wallets[e1.wallet].balance = bal0[e1.wallet]

\* C14: concurrent commit and reverse calls on the same PENDING reservation:
\* at most one call is ever past the status check with the row still
\* PENDING, every call returns the winner's status; if a reverse won the
\* balance is restored once and one REFUND row carries the winning reason,
\* if a commit won the balance is unchanged and no REFUND row exists.
C14_FirstWriterWins ==
    LET calls == {e \in log : e.tx = 1}
        refunds == {i \in DOMAIN rows : rows[i].tx_type = REFUND}
        w == rows[1].wallet
        n == 0 - rows[1].delta
        writers == {p \in Procs : /\ loc[p].tx = 1
                                  /\ pc[p] \in {"rev_wallet", "rev_refund"}}
    IN /\ Cardinality(writers) <= 1
       /\ writers # {} => rows[1].tx_status = PENDING /\ refunds = {}
       /\ Cardinality(refunds) <= 1
       /\ \A e \in calls : e.res = rows[1].tx_status
       /\ (AllIdle /\ calls # {}) =>
             /\ rows[1].tx_status \in {COMMITTED, REVERSED}
             /\ rows[1].tx_status = REVERSED =>
                   /\ wallets[w].balance = bal0[w]
                   /\ Cardinality(refunds) = 1
                   /\ \E e \in calls :
                         /\ e.op = "reverse" /\ e.reason = rows[1].note
                         /\ \A i \in refunds :
                               /\ rows[i].note = <<"refund of tx", 1, e.reason>>
                               /\ rows[i].delta = n /\ rows[i].wallet = w
                               /\ i \in Ledger
             /\ rows[1].tx_status = COMMITTED =>
                   /\ wallets[w].balance = bal0[w] - n
                   /\ refunds = {}
                   /\ rows[1].note = "api-request"
                   /\ \E e \in calls : e.op = "commit"

\* three calls on the reservation: the reverse with reason r1 has won and
\* returned, the commit holds the row lock and sees REVERSED, the reverse
\* with reason r2 waits for the lock
C14_Witness ==
    /\ \E e \in log : /\ e.proc = 1 /\ e.op = "reverse" /\ e.tx = 1
                       /\ e.reason = "r1" /\ e.res = REVERSED
    /\ pc[2] = "com_save" /\ loc[2].tx = 1 /\ rows[1].lock = 2
    /\ pc[3] = "rev_select" /\ loc[3].tx = 1 /\ loc[3].reason = "r2"
    /\ rows[1].tx_status = REVERSED /\ rows[1].note = "r1"

\* C15: the status of a ledger row changes only from PENDING to COMMITTED
\* or from PENDING to REVERSED; a COMMITTED or REVERSED row keeps its status
\* (and stays in the ledger) through every later reserve, commit, reverse
\* and sweep.
C15_TerminalIsFinal ==
    [][\A id \in Ledger :
        /\ id \in LedgerOf(rows')
        /\ rows[id].tx_status \in {PENDING, COMMITTED, REVERSED}
        /\ rows'[id].tx_status # rows[id].tx_status
           => /\ rows[id].tx_status = PENDING
              /\ rows'[id].tx_status \in {COMMITTED, REVERSED}
      ]_vars

\* a row was reversed and a later reserve with its key was answered with
\* it: it is still REVERSED
C15_Witness ==
    \E e1, e2 \in log :
        /\ e1.op = "reverse" /\ e1.res = REVERSED
        /\ e2.op = "reserve" /\ e2.how = "hit" /\ e2.tx = e1.tx
        /\ e2.proc = e1.proc /\ e2.seq > e1.seq
        /\ rows[e1.tx].tx_status = REVERSED

\* C16: in every committed state each REVERSED DEBIT row has exactly one
\* REFUND row (same wallet, delta = |debit delta|, COMMITTED), each PENDING
\* or COMMITTED DEBIT row has none, and there are as many REFUND rows as
\* REVERSED DEBIT rows.
C16_RefundPerReversal ==
    LET debits == {i \in Ledger : rows[i].tx_type = DEBIT}
        refunds == {j \in Ledger : rows[j].tx_type = REFUND}
        of(i) == {j \in refunds : rows[j].note[2] = i}
    IN /\ \A i \in debits :
             IF rows[i].tx_status = REVERSED
             THEN /\ Cardinality(of(i)) = 1
                  /\ \A j \in of(i) :
                        /\ rows[j].wallet = rows[i].wallet
                        /\ rows[j].delta = 0 - rows[i].delta
                        /\ rows[j].delta > 0
                        /\ rows[j].tx_status = COMMITTED
             ELSE of(i) = {}
       /\ \A j \in refunds : rows[j].note[2] \in debits
       /\ Cardinality(refunds) =
             Cardinality({i \in debits : rows[i].tx_status = REVERSED})

\* two reservations, one reversed with its one REFUND, the other PENDING
\* with none
C16_Witness ==
    \E i, j, r \in Ledger :
        /\ rows[i].tx_type = DEBIT /\ rows[i].tx_status = REVERSED
        /\ rows[j].tx_type = DEBIT /\ rows[j].tx_status = PENDING
        /\ rows[r].tx_type = REFUND /\ rows[r].note[2] = i
        /\ Cardinality(Ledger) = 3

\* the sum of |delta| over the committed rows of wallet w with a type in
\* types and a status in statuses
AbsSum(w, types, statuses) ==
    LET abs == [i \in Ledger |->
                  IF rows[i].delta < 0 THEN 0 - rows[i].delta ELSE rows[i].delta]
    IN Sum(abs, {i \in Ledger : /\ rows[i].wallet = w
                                /\ rows[i].tx_type \in types
                                /\ rows[i].tx_status \in statuses})

\* C17 (as stated): for every wallet, in every committed state: balance +
\* sum(|delta| of PENDING DEBITs) + sum(|delta| of COMMITTED DEBITs) -
\* sum(|delta| of CREDITs and REFUNDs) = the wallet's initial balance.
C17_Conservation ==
    \A w \in Wallets :
        wallets[w].balance
          + AbsSum(w, {DEBIT}, {PENDING})
          + AbsSum(w, {DEBIT}, {COMMITTED})
          - AbsSum(w, {CREDIT, REFUND}, {PENDING, COMMITTED, REVERSED})
        = bal0[w]

\* C17 (amended): for every wallet, in every committed state: balance +
\* sum(|delta| of PENDING DEBITs) + sum(|delta| of COMMITTED DEBITs) -
\* sum(|delta| of CREDITs) = the wallet's initial balance; a REFUND row
\* cancels its REVERSED DEBIT, which the sum leaves out.
C17_ConservationAmended ==
    \A w \in Wallets :
        wallets[w].balance
          + AbsSum(w, {DEBIT}, {PENDING})
          + AbsSum(w, {DEBIT}, {COMMITTED})
          - AbsSum(w, {CREDIT}, {PENDING, COMMITTED, REVERSED})
        = bal0[w]

\* a top-up, a reservation and its reversal have all committed on a wallet
C17_Witness ==
    \E i, j, r \in Ledger :
        /\ rows[i].tx_type = CREDIT
        /\ rows[j].tx_type = DEBIT /\ rows[j].tx_status = REVERSED
        /\ rows[r].tx_type = REFUND
        /\ wallets[rows[i].wallet].balance = bal0[rows[i].wallet] + rows[i].delta

\* C18: if the status save, the wallet update or the REFUND insert of a
\* reverse fails, the reverse is undone as a whole: the reservation is
\* PENDING with its note, no balance changed and no REFUND row exists; if
\* the save of a commit fails the reservation is PENDING; the error reaches
\* the caller.
C18_FailureRollsBack ==
    [][\A p \in Procs :
        /\ (/\ pc[p] \in {"rev_select", "rev_save", "rev_wallet", "com_select"}
            /\ pc'[p] \in {"rev_save", "rev_wallet", "rev_refund", "com_save"}
            /\ pc'[p] # pc[p])
           => /\ Committed(rows') = Committed(rows)
              /\ Balances(wallets') = Balances(wallets)
        /\ (/\ pc[p] \in {"rev_save", "rev_wallet", "rev_refund", "com_save"}
            /\ \E e \in log' \ log : e.res = "IntegrityError")
           => LET id == loc[p].tx
              IN /\ pc'[p] = "idle"
                 /\ \E e \in log' \ log : e.proc = p /\ e.tx = id
                 /\ Committed(rows') = Committed(rows)
                 /\ Balances(wallets') = Balances(wallets)
                 /\ rows'[id].tx_status = PENDING
                 /\ rows'[id].pstatus = PENDING
                 /\ rows'[id].note = rows[id].note
                 /\ rows'[id].pnote = rows[id].note
                 /\ \A i \in DOMAIN rows' :
                       /\ rows'[i].xmin # p /\ rows'[i].lock # p
                       /\ rows'[i].tx_type = REFUND => rows'[i].note[2] # id
                 /\ \A w \in Wallets :
                       /\ wallets'[w].lock # p
                       /\ wallets[w].lock = p
                          => wallets'[w].pbalance = wallets[w].balance
      ]_vars

\* on one reservation a reverse failed at its REFUND insert and a commit at
\* its save: the row is PENDING, the credits are held, no REFUND exists
C18_Witness ==
    \E e1, e2 \in log :
        /\ e1.op = "reverse" /\ e1.res = "IntegrityError" /\ e1.how = "rev_refund"
        /\ e2.op = "commit" /\ e2.res = "IntegrityError" /\ e2.tx = e1.tx
        /\ rows[e1.tx].tx_status = PENDING /\ rows[e1.tx].note = "api-request"
        /\ wallets[e1.wallet].balance = bal0[e1.wallet] + rows[e1.tx].delta
        /\ DOMAIN rows = {e1.tx}
        /\ nextId = 2

\* C19: a sweep started at time t changes only rows that are PENDING with
\* created_at < t - ttl: it leaves every PENDING row created at the cutoff
\* or later PENDING, leaves COMMITTED and REVERSED rows untouched, and
\* raises each balance by exactly the amounts of the stale rows it reversed.
C19_SweepOnlyStale ==
    [][\A p \in Procs :
        /\ (pc[p] = "idle" /\ loc'[p].op = "sweep")
           => loc'[p].cutoff = now - TTL
        /\ (loc[p].op = "sweep" /\ (pc'[p] # pc[p] \/ loc'[p] # loc[p]))
           => LET changed == {i \in Ledger :
                                Committed(rows')[i] # Committed(rows)[i]}
                  amount == [i \in Ledger |-> 0 - rows[i].delta]
              IN /\ \A i \in Ledger : i \in LedgerOf(rows')
                 /\ \A i \in changed :
                       /\ rows[i].tx_status = PENDING
                       /\ rows[i].tx_type = DEBIT
                       /\ rows[i].created_at < loc[p].cutoff
                       /\ rows'[i].tx_status = REVERSED
                       /\ rows'[i].delta = rows[i].delta
                       /\ rows'[i].wallet = rows[i].wallet
                 /\ \A i \in LedgerOf(rows') \ Ledger :
                       rows'[i].tx_type = REFUND
                 /\ \A w \in Wallets :
                       wallets'[w].balance = wallets[w].balance
                          + Sum(amount, {i \in changed : rows[i].wallet = w})
      ]_vars

\* a sweep returned 1: it reversed the reservation made before the clock
\* moved and left the one made after it PENDING with its credit held
C19_Witness ==
    \E e \in log, i, j \in Ledger :
        /\ e.op = "sweep" /\ e.total = 1
        /\ rows[i].created_at = 0 /\ rows[i].tx_status = REVERSED
        /\ rows[i].note = "expired"
        /\ rows[j].created_at = now /\ rows[j].tx_status = PENDING
        /\ rows[j].tx_type = DEBIT /\ now > TTL
        /\ wallets[rows[j].wallet].balance
              = bal0[rows[j].wallet] + rows[j].delta

\* C20: a sweep running alone over N stale PENDING rows with chunk size
\* c >= 1 takes batches of at most c rows, lowest ids first, until none is
\* left: when it returns all N rows are REVERSED, each has its REFUND row
\* (N in all), every balance is restored and the returned count is N.
C20_SweepDrains ==
    LET cutoff == now - TTL
        stale == {i \in Ledger : /\ rows[i].tx_type = DEBIT
                                 /\ rows[i].created_at < cutoff
                                 /\ rows[i].tx_status \in {PENDING, REVERSED}}
        refunds == {j \in Ledger : rows[j].tx_type = REFUND}
        amount == [i \in Ledger |-> 0 - rows[i].delta]
    IN /\ \A p \in Procs :
             pc[p] \in {"rev_select", "rev_save", "rev_wallet", "rev_refund",
                        "sw_commit"}
             => /\ 1 <= loc[p].blen /\ loc[p].blen <= loc[p].chunk
                /\ Cardinality({i \in stale : rows[i].lock = p}) = loc[p].blen
                /\ \A i, j \in stale :
                      (/\ rows[i].lock = p /\ rows[j].lock # p
                       /\ rows[j].tx_status = PENDING) => i < j
       /\ \A e \in log :
             (e.op = "sweep" /\ e.seq = 0)
             => /\ e.res = "ok"
                /\ e.total = Cardinality(stale)
                /\ \A i \in stale :
                      /\ rows[i].tx_status = REVERSED
                      /\ rows[i].note = "expired"
                      /\ Cardinality({j \in refunds : rows[j].note[2] = i}) = 1
                /\ Cardinality(refunds) = Cardinality(stale)
                /\ \A w \in DOMAIN wallets :
                      wallets[w].balance = bal0[w]
                         + Sum(amount, {i \in stale : rows[i].wallet = w})
                /\ \A i \in Ledger \ stale :
                      rows[i].tx_status \in {PENDING, COMMITTED}
       /\ \A e \in log : (e.op = "sweep" /\ e.seq > 0) => e.total = 0

\* three stale rows on two wallets, more than any chunk size tried: the
\* sweep returned 3, all three are REVERSED and three REFUND rows exist
C20_Witness ==
    \E e \in log :
        /\ e.op = "sweep" /\ e.seq = 0 /\ e.total = 3
        /\ \A i \in 1..3 : rows[i].tx_status = REVERSED
        /\ rows[1].wallet # rows[2].wallet
        /\ Cardinality({j \in Ledger : rows[j].tx_type = REFUND}) = 3
        /\ \A w \in DOMAIN wallets : wallets[w].balance > bal0[w]

\* C21: every sweep call terminates, also beside other sweepers, commits and
\* reverses: each loop iteration either commits the reversal of at least one
\* row, which takes that row out of the PENDING and older-than-cutoff set for
\* good, or sees an empty batch and returns - an iteration never ends any
\* other way
C21_IterationProgress ==
    [][\A p \in Workers :
          (/\ loc[p].op = "sweep"
           /\ pc'[p] # pc[p]
           /\ pc'[p] \in {"sw_select", "idle"})
          => \/ /\ pc[p] = "sw_commit"
                /\ pc'[p] = "sw_select"
                /\ \E id \in Ledger :
                      /\ rows[id].tx_status = PENDING
                      /\ rows[id].created_at < loc[p].cutoff
                      /\ rows'[id].tx_status = REVERSED
                      /\ rows'[id].lock = NoProc
             \/ /\ pc[p] = "sw_select"
                /\ pc'[p] = "idle"
                /\ Stale(loc[p].cutoff) = {}
                /\ \E e \in log' \ log : e.proc = p /\ e.res = "ok"]_vars

\* the rows that were PENDING and older than the cutoff when the sweeps
\* began, and the REFUND rows of the ledger
StaleAtStart ==
    {i \in Ledger : rows[i].tx_type = DEBIT /\ rows[i].created_at < now - TTL}

Refunds == {j \in Ledger : rows[j].tx_type = REFUND}

Sweeps == {e \in log : e.op = "sweep"}

Totals(S) == Sum([e \in S |-> e.total], S)

\* C22: sweeps running at once over the same stale PENDING rows, spread over
\* several wallets: under every interleaving no row is reversed twice, and
\* once all sweeps have ended every stale row is REVERSED, has exactly one
\* REFUND row, every wallet has its reserved credits back, and - all sweeps
\* having returned - the returned counts add up to the number of stale rows.
C22_SweepsPartition ==
    /\ \A i \in StaleAtStart :
          /\ Cardinality({j \in Refunds : rows[j].note[2] = i}) <= 1
          /\ Cardinality({p \in Procs : rows[i].lock = p}) <= 1
          /\ rows[i].tx_status = REVERSED
             <=> \E j \in Refunds : rows[j].note[2] = i
    /\ (AllIdle /\ Sweeps # {})
       => /\ \A i \in StaleAtStart :
                /\ rows[i].tx_status = REVERSED
                /\ rows[i].note = "expired"
                /\ Cardinality({j \in Refunds : /\ rows[j].note[2] = i
                                                /\ rows[j].delta = 1
                                                /\ rows[j].wallet = rows[i].wallet
                                                /\ rows[j].tx_status = COMMITTED}) = 1
          /\ Cardinality(Refunds) = Cardinality(StaleAtStart)
          /\ \A w \in SweepWallets :
                wallets[w].balance =
                   Cardinality({i \in StaleAtStart : rows[i].wallet = w})
          /\ \A i \in Ledger \ (StaleAtStart \cup Refunds) :
                rows[i].tx_status = PENDING
          /\ (\A e \in Sweeps : e.res = "ok")
             => Totals(Sweeps) = Cardinality(StaleAtStart)

\* two sweeps that ran at once have both returned, each having reversed
\* rows, on both wallets
C22_Witness ==
    /\ AllIdle
    /\ \E e, f \in Sweeps :
          /\ e.proc # f.proc /\ e.seq = 0 /\ f.seq = 0
          /\ e.res = "ok" /\ f.res = "ok"
          /\ e.total >= 1 /\ f.total >= 1
          /\ e.total + f.total = 4
    /\ \E i, j \in StaleAtStart : rows[i].wallet # rows[j].wallet

\* the stale rows whose lock another transaction than the sweeper's holds
LockedStale(p) ==
    {i \in StaleAtStart : rows[i].tx_status = PENDING
                          /\ rows[i].lock \notin {NoProc, p}}

\* C23: a stale PENDING row whose row lock another transaction holds is
\* skipped by a running sweep: the batch select never waits and never takes
\* the row, the sweep reverses the unlocked stale rows and returns, the locked
\* row is left PENDING with its credit held; a sweep that runs when the lock
\* has been released leaves no stale row PENDING.
C23_SkipLocked ==
    [][/\ pc[Sweeper] = "sw_select" => ENABLED SweepSelect(Sweeper)
       /\ (pc[Sweeper] = "sw_select" /\ pc'[Sweeper] # pc[Sweeper])
          => /\ \A i \in LockedStale(Sweeper) :
                   /\ rows'[i] = rows[i]
                   /\ \A n \in 1..Len(loc'[Sweeper].batch) :
                         loc'[Sweeper].batch[n] # i
             /\ \A w \in SweepWallets :
                   wallets[w].balance =
                      Cardinality({i \in Ledger : /\ rows[i].tx_type = DEBIT
                                                  /\ rows[i].wallet = w
                                                  /\ rows[i].tx_status = REVERSED})
             /\ pc'[Sweeper] = "idle"
                => /\ \E e \in log' \ log : e.op = "sweep" /\ e.res = "ok"
                   /\ \A i \in StaleAtStart \ LockedStale(Sweeper) :
                         rows'[i].tx_status = REVERSED
                   /\ \A i \in LockedStale(Sweeper) :
                         rows'[i].tx_status = PENDING
                   /\ pc[Other] = "idle"
                      => \A i \in StaleAtStart : rows'[i].tx_status = REVERSED
             /\ pc'[Sweeper] # "idle"
                => \A n \in 1..Len(loc'[Sweeper].batch) :
                      /\ loc'[Sweeper].batch[n] \in StaleAtStart
                      /\ rows[loc'[Sweeper].batch[n]].lock = NoProc
                      /\ rows'[loc'[Sweeper].batch[n]].lock = Sweeper]_vars

\* a first sweep skipped the row that another transaction had locked and
\* reversed the other one; the lock was released without a write; a second
\* sweep reversed the skipped row
C23_Witness ==
    /\ AllIdle
    /\ \E h \in log : h.op = "hold" /\ h.tx = 1 /\ h.res = "ok"
    /\ \E e, f \in Sweeps :
          /\ e.seq = 0 /\ e.total = 1
          /\ f.seq = 1 /\ f.total = 1
    /\ Cardinality(StaleAtStart) = 2
    /\ \A i \in StaleAtStart : rows[i].tx_status = REVERSED
    /\ rows[1].created_at = 0

\* the reservations whose request died in the handler
Crashed == {e.tx : e \in {f \in log : f.res = "crash"}}

\* the ids a reservation can get when MaxRequests requests are made
RequestIds == 1..(2 * MaxRequests)

IsStale(id) ==
    IF id \in Ledger
    THEN rows[id].tx_type = DEBIT /\ rows[id].created_at < now - TTL
    ELSE FALSE

IsTerminal(id) ==
    IF id \in Ledger THEN rows[id].tx_status \in {COMMITTED, REVERSED} ELSE FALSE

IsRefunded(id) ==
    IF id \in Ledger
    THEN /\ rows[id].tx_status = REVERSED
         /\ \E j \in Ledger : /\ rows[j].tx_type = REFUND
                               /\ rows[j].note[2] = id
                               /\ rows[j].delta = 0 - rows[id].delta
    ELSE FALSE

KeylessCrashed(id) ==
    IF id \in Crashed THEN rows[id].idempotency_key = NoKey ELSE FALSE

RequestsDone == {e \in log : e.op = "request"}

Sharers(tx) ==
    Cardinality({e \in log : e.tx = tx})
        + Cardinality({p \in Procs : loc[p].tx = tx})

RefundsOf(id) == {j \in Ledger : rows[j].tx_type = REFUND /\ rows[j].note[2] = id}

\* the committed balance of w is what it began with less the one-credit
\* reservations that are held or committed
Charged(w) ==
    Cardinality({i \in Ledger : /\ rows[i].wallet = w
                                /\ rows[i].tx_type = DEBIT
                                /\ rows[i].tx_status # REVERSED})

\* C25: when the handler returns, the wrapper calls commit iff
\* 200 <= status < 400 and else reverse with reason "http <status>" (no
\* status code counts as 500); for a request with a fresh idempotency key a
\* success leaves exactly one DEBIT of -1 COMMITTED and the balance down by
\* 1, a non-success leaves the DEBIT REVERSED, one +1 REFUND COMMITTED and
\* the balance unchanged.
C25_CommitIffSuccess ==
    [][/\ \A p \in Procs :
             (/\ pc[p] = "wr_handler" /\ pc'[p] # pc[p]
              /\ loc'[p].outcome # "raise")
             => LET code == loc'[p].status
                IN /\ loc'[p].outcome = "nostatus" => code = 500
                   /\ loc'[p].tx = loc[p].tx
                   /\ IF 200 <= code /\ code < 400
                      THEN /\ pc'[p] = "com_select"
                           /\ loc'[p].ncommit = 1 /\ loc'[p].nreverse = 0
                      ELSE /\ pc'[p] = "rev_select"
                           /\ loc'[p].ncommit = 0 /\ loc'[p].nreverse = 1
                           /\ \/ code = 199 /\ loc'[p].reason = "http 199"
                              \/ code = 400 /\ loc'[p].reason = "http 400"
                              \/ code = 500 /\ loc'[p].reason = "http 500"
       /\ \A e \in RequestsDone' :
             (/\ e.res \in {"response", "nostatus"}
              /\ e.how = "created"
              /\ Sharers(e.tx)' = 1)
             => LET row == rows'[e.tx]
                    refunds == RefundsOf(e.tx)'
                IN /\ row.tx_type = DEBIT /\ row.delta = 0 - 1
                   /\ row.wallet = e.wallet /\ row.lock = NoProc
                   /\ wallets'[e.wallet].balance = bal0[e.wallet] - Charged(e.wallet)'
                   /\ IF 200 <= e.status /\ e.status < 400
                      THEN /\ row.tx_status = COMMITTED
                           /\ refunds = {}
                           /\ (AllIdle' /\ log' = {e})
                              => wallets'[e.wallet].balance = bal0[e.wallet] - 1
                      ELSE /\ row.tx_status = REVERSED
                           /\ Cardinality(refunds) = 1
                           /\ \A j \in refunds :
                                 /\ rows'[j].delta = 1
                                 /\ rows'[j].tx_status = COMMITTED
                                 /\ rows'[j].wallet = e.wallet
                           /\ (AllIdle' /\ log' = {e})
                              => wallets'[e.wallet].balance = bal0[e.wallet]]_vars

\* two requests with fresh reservations have ended, one with status 399 and
\* its DEBIT COMMITTED, one without a status code and its DEBIT REVERSED
C25_Witness ==
    \E e, f \in RequestsDone :
        /\ e.how = "created" /\ f.how = "created" /\ e.tx # f.tx
        /\ e.res = "response" /\ e.status = 399
        /\ rows[e.tx].tx_status = COMMITTED
        /\ f.res = "nostatus" /\ f.status = 500 /\ f.reason = "http 500"
        /\ rows[f.tx].tx_status = REVERSED
        /\ wallets[1].balance = bal0[1] - 1

\* C26: when the handler raises, the wrapper first reverses the reservation
\* with reason "exception" and only then lets the exception out: at the step
\* where the caller gets the exception the DEBIT is REVERSED, a +1 REFUND is
\* COMMITTED and the balance is what it was before the request.
C26_ReverseThenRaise ==
    [][/\ \A p \in Procs :
             (/\ pc[p] = "wr_handler" /\ pc'[p] # pc[p]
              /\ loc'[p].outcome = "raise")
             => /\ pc'[p] = "rev_select"
                /\ loc'[p].reason = "exception"
                /\ loc'[p].tx = loc[p].tx
                /\ loc'[p].nreverse = 1 /\ loc'[p].ncommit = 0
                /\ log' = log
       /\ \A e \in RequestsDone' \ RequestsDone :
             e.res = "raise"
             => /\ e.nreverse = 1 /\ e.ncommit = 0
                /\ e.reason = "exception"
                /\ pc[e.proc] \in {"rev_save", "rev_refund"}
                /\ rows'[e.tx].lock = NoProc
                /\ (e.how = "created" /\ Sharers(e.tx)' = 1)
                   => /\ rows'[e.tx].tx_status = REVERSED
                      /\ rows'[e.tx].note = "exception"
                      /\ Cardinality(RefundsOf(e.tx)') = 1
                      /\ \A j \in RefundsOf(e.tx)' :
                            /\ rows'[j].delta = 1
                            /\ rows'[j].tx_status = COMMITTED
                            /\ rows'[j].wallet = e.wallet
                      /\ wallets'[e.wallet].balance
                            = bal0[e.wallet] - Charged(e.wallet)'
                      /\ (AllIdle' /\ log' = {e})
                         => wallets'[e.wallet].balance = bal0[e.wallet]]_vars

\* a request that ran alone on a wallet of 1 credit has ended with the
\* handler's exception: its DEBIT is REVERSED, refunded, the balance is 1
C26_Witness ==
    /\ AllIdle
    /\ bal0[1] = 1
    /\ \E e \in RequestsDone :
          /\ log = {e}
          /\ e.res = "raise" /\ e.how = "created"
          /\ rows[e.tx].tx_status = REVERSED
          /\ Cardinality(RefundsOf(e.tx)) = 1
          /\ wallets[1].balance = 1

\* C27: when no wallet is resolved for the request (X-API-Key missing,
\* blank, unknown or inactive) the wrapper answers 401 without calling
\* reserve or the handler: no ledger row is created, no balance changes.
C27_NoWallet401 ==
    [][/\ \A p \in Procs :
             (pc[p] = "wr_wallet" /\ pc'[p] # pc[p])
             => IF loc[p].apikey \in {NoKey, "", "nope", "k_inactive"}
                THEN /\ pc'[p] = "idle"
                     /\ \E e \in log' \ log :
                           /\ e.proc = p /\ e.res = "401"
                           /\ e.tx = NoTx /\ e.wallet = NoWallet
                           /\ e.ncommit = 0 /\ e.nreverse = 0
                     /\ rows' = rows /\ wallets' = wallets /\ nextId' = nextId
                ELSE /\ pc'[p] = "res_validate"
                     /\ loc'[p].wallet = 1
                     /\ log' = log
       /\ \A e \in RequestsDone' : e.res = "401" <=> e.wallet = NoWallet]_vars

\* a request with an inactive key and one with a blank key have been
\* answered 401 on a funded wallet, and the ledger is empty
C27_Witness ==
    /\ AllIdle
    /\ \E e, f \in RequestsDone :
          /\ e.apikey = "k_inactive" /\ e.res = "401"
          /\ f.apikey = "" /\ f.res = "401"
    /\ rows = << >>
    /\ nextId = 1
    /\ wallets[1].balance = bal0[1]
    /\ bal0[1] > 0

\* C28: when reserve reports InsufficientCredits the wrapper answers 402 and
\* does nothing more: the handler is not invoked, neither commit nor reverse
\* is called, no ledger row of the request persists and the balance is
\* unchanged.
C28_Insufficient402 ==
    [][/\ \A p \in Procs :
             (/\ loc[p].op = "request" /\ pc[p] = "res_rollback"
              /\ pc'[p] # pc[p])
             => /\ pc'[p] = "idle"
                /\ \E e \in log' \ log :
                      /\ e.proc = p /\ e.res = "402" /\ e.tx = NoTx
                      /\ e.ncommit = 0 /\ e.nreverse = 0
                /\ Committed(rows') = Committed(rows)
                /\ ~ \E id \in DOMAIN rows' : rows'[id].xmin = p \/ rows'[id].lock = p
                /\ \A w \in Wallets :
                      /\ wallets'[w].balance = wallets[w].balance
                      /\ wallets'[w].lock # p
       /\ \A p \in Procs :
             (/\ loc[p].op = "request" /\ pc[p] = "res_dec" /\ pc'[p] # pc[p])
             => (pc'[p] = "res_rollback" <=> wallets[loc[p].wallet].pbalance < 1)
       /\ \A e \in RequestsDone' :
             e.res = "402"
             => /\ e.ncommit = 0 /\ e.nreverse = 0
                /\ e.status = 0 /\ e.tx = NoTx
                /\ e.how = "created"
                /\ (AllIdle' /\ log' = {e})
                   => /\ rows' = << >>
                      /\ wallets'[e.wallet].balance = bal0[e.wallet]]_vars

\* a request on an empty wallet has been answered 402: nothing in the
\* ledger, the balance still 0, one id of the sequence used up
C28_Witness ==
    /\ AllIdle
    /\ bal0[1] = 0
    /\ \E e \in RequestsDone : log = {e} /\ e.res = "402" /\ e.key = "k1"
    /\ rows = << >>
    /\ nextId = 2
    /\ wallets[1].balance = 0

\* the calls, ended or running, that carry Idempotency-Key k on wallet w
WithKey(w, k) ==
    Cardinality({e \in log : e.wallet = w /\ e.key = k})
        + Cardinality({p \in Procs : loc[p].wallet = w /\ loc[p].key = k})

\* C29: two requests to the same wallet, one after the other, with the same
\* Idempotency-Key and both with a succeeding handler: both return the
\* handler's response, exactly one ledger row has that key and it is
\* COMMITTED, and the balance is down by 1 in total; the second request
\* reuses the reservation and its commit changes nothing.
C29_SameKeyChargedOnce ==
    \A e, f \in RequestsDone :
        (/\ e.proc = f.proc /\ e.seq + 1 = f.seq
         /\ e.wallet = 1 /\ f.wallet = 1
         /\ e.key = "k1" /\ f.key = "k1"
         /\ WithKey(1, "k1") = 2
         /\ e.res # "402" /\ f.res # "402"
         /\ Success(e.status) /\ Success(f.status)
         /\ e.res # "raise" /\ f.res # "raise")
        => /\ e.res = "response" /\ f.res = "response"
           /\ e.how = "created" /\ f.how = "hit"
           /\ f.tx = e.tx
           /\ e.ncommit = 1 /\ f.ncommit = 1
           /\ e.nreverse = 0 /\ f.nreverse = 0
           /\ {i \in Ledger : rows[i].idempotency_key = "k1"} = {e.tx}
           /\ rows[e.tx].tx_status = COMMITTED
           /\ rows[e.tx].tx_type = DEBIT /\ rows[e.tx].delta = 0 - 1
           /\ RefundsOf(e.tx) = {}
           /\ wallets[1].balance = bal0[1] - Charged(1)
           /\ (AllIdle /\ log = {e, f}) => wallets[1].balance = bal0[1] - 1

\* the same worker has served two requests with key k1, statuses 200 and
\* 399: one COMMITTED row, the wallet of 2 credits is at 1
C29_Witness ==
    /\ AllIdle
    /\ bal0[1] = 2
    /\ \E e, f \in RequestsDone :
          /\ log = {e, f}
          /\ e.proc = f.proc /\ e.seq = 0 /\ f.seq = 1
          /\ e.key = "k1" /\ f.key = "k1"
          /\ e.status = 200 /\ f.status = 399
          /\ f.how = "hit"
    /\ DOMAIN rows = {1}
    /\ rows[1].tx_status = COMMITTED
    /\ wallets[1].balance = 1

TopUps == {e \in log : e.op = "top_up"}

\* C30: top_up(w, a) with a > 0 atomically adds a to the balance and inserts
\* exactly one CREDIT row with delta = a and status COMMITTED; with a <= 0 it
\* raises ValueError and changes nothing; if the ledger insert fails the
\* balance increase is rolled back and no row exists.
C30_TopUp ==
    [][/\ \A p \in Procs :
             (loc[p].op = "top_up" /\ pc'[p] # pc[p])
             => LET w == loc[p].wallet
                    a == loc[p].amount
                    new == LedgerOf(rows') \ Ledger
                    ended == log' \ log
                IN /\ Cardinality(ended) <= 1
                   /\ \A e \in ended : e.proc = p /\ e.amount = a
                   /\ (pc[p] = "top_validate" /\ a <= 0)
                      => /\ \E e \in ended : e.res = "ValueError"
                         /\ rows' = rows /\ wallets' = wallets
                   /\ (pc[p] = "top_validate" /\ a > 0)
                      => ended = {} /\ pc'[p] = "top_wallet"
                   /\ (\E e \in ended : e.res = "ok")
                      => /\ a > 0
                         /\ wallets'[w].balance = wallets[w].balance + a
                         /\ wallets'[w].lock = NoProc
                         /\ Cardinality(new) = 1
                         /\ \A i \in new :
                               /\ rows'[i].wallet = w /\ rows'[i].delta = a
                               /\ rows'[i].tx_type = CREDIT
                               /\ rows'[i].tx_status = COMMITTED
                               /\ \E e \in ended : e.tx = i
                   /\ (~ \E e \in ended : e.res = "ok")
                      => /\ Committed(rows') = Committed(rows)
                         /\ \A v \in Wallets :
                               wallets'[v].balance = wallets[v].balance
                   /\ (\E e \in ended : e.res = "IntegrityError")
                      => /\ \A v \in Wallets : wallets'[v].lock # p
                         /\ \A v \in Wallets :
                               wallets'[v].lock = NoProc
                               => wallets'[v].pbalance = wallets'[v].balance
                         /\ ~ \E i \in DOMAIN rows' : rows'[i].xmin = p
       /\ AllIdle'
          => \A w \in Wallets :
                LET ok == {e \in TopUps' : e.res = "ok" /\ e.wallet = w}
                IN /\ wallets'[w].balance
                         = bal0[w] + Sum([e \in ok |-> e.amount], ok)
                   /\ Cardinality({i \in LedgerOf(rows') : rows'[i].wallet = w})
                         = Cardinality(ok)
                   /\ \A e \in TopUps' :
                         /\ e.res = "ValueError" <=> e.amount <= 0
                         /\ e.res \in {"ok", "ValueError", "IntegrityError"}]_vars

\* a top-up of 2 has gone through, one of 1 has failed at the insert and one
\* of 0 was refused: a single CREDIT row of 2, the balance up by 2
C30_Witness ==
    /\ AllIdle
    /\ \E e, f, g \in TopUps :
          /\ e.res = "ok" /\ e.amount = 2
          /\ f.res = "IntegrityError" /\ f.amount = 1
          /\ g.res = "ValueError" /\ g.amount = 0
    /\ Cardinality(Ledger) = 1
    /\ \A i \in Ledger : rows[i].tx_type = CREDIT /\ rows[i].delta = 2
    /\ wallets[1].balance = bal0[1] + 2

\* C31: concurrent top_up calls on one wallet never lose an update: under
\* every interleaving of valid top-ups, mixed with ones that fail, the
\* committed balance is the initial balance plus the amounts of the calls
\* whose transaction has committed, one CREDIT row each; when all calls have
\* ended these are the successful calls.
C31_NoLostTopUp ==
    \A w \in Wallets :
        LET credits == {i \in Ledger : rows[i].wallet = w /\ rows[i].tx_type = CREDIT}
            ok == {e \in TopUps : e.res = "ok" /\ e.wallet = w}
        IN /\ wallets[w].balance
                 = bal0[w] + Sum([i \in credits |-> rows[i].delta], credits)
           /\ Cardinality(credits) = Cardinality(ok)
           /\ {e.tx : e \in ok} = credits
           /\ \A e \in ok : rows[e.tx].delta = e.amount /\ e.amount > 0
           /\ wallets[w].balance = bal0[w] + Sum([e \in ok |-> e.amount], ok)
           /\ Cardinality({p \in Procs : wallets[w].lock = p}) <= 1

\* three processes have each made one call: top-ups of 1 and of 2 went
\* through, one of -1 was refused; the balance is up by 3 and two CREDIT
\* rows exist
C31_Witness ==
    /\ AllIdle
    /\ \E e, f, g \in TopUps :
          /\ Cardinality({e.proc, f.proc, g.proc}) = 3
          /\ e.res = "ok" /\ e.amount = 1
          /\ f.res = "ok" /\ f.amount = 2
          /\ g.res = "ValueError" /\ g.amount = 0 - 1
    /\ wallets[1].balance = bal0[1] + 3
    /\ Cardinality(Ledger) = 2

\* what is stored for wallet v: its balance, committed and as written by an
\* open transaction, and its rows (row locks aside)
WalletView(v) ==
    <<wallets[v].balance, wallets[v].pbalance,
      [i \in {j \in DOMAIN rows : rows[j].wallet = v} |->
          [rows[i] EXCEPT !.lock = NoProc]]>>

\* the wallets the step that p is about to take works for: the wallet passed
\* to reserve and top_up, the wallet of the reservation passed to commit and
\* reverse, the wallet of the row a sweep is reversing and, at the end of a
\* sweep batch, the wallets of the batch's rows
WorksFor(p) ==
    IF loc[p].op \in {"reserve", "top_up"} THEN {loc[p].wallet}
    ELSE IF loc[p].op \in {"commit", "reverse"} THEN {rows[loc[p].tx].wallet}
    ELSE IF loc[p].op = "sweep" /\ pc[p] = "sw_commit"
    THEN {rows[i].wallet : i \in {j \in DOMAIN rows : rows[j].lock = p}}
    ELSE IF loc[p].op = "sweep" /\ loc[p].tx # NoTx THEN {rows[loc[p].tx].wallet}
    ELSE {}

\* C32: the operations on one wallet leave every other wallet alone: a step
\* of reserve, commit, reverse, top_up or of the reversal of a row by a sweep
\* changes the balance and the rows of no wallet but the one it works for;
\* every wallet's balance is its own initial balance plus its own rows'
\* deltas; and a reserve, also one with a key that another wallet has used,
\* returns a row of its own wallet, so that the same key on two wallets
\* yields two reservations
C32_WalletIsolation ==
    [][/\ \A v \in SweepWallets :
             WalletView(v)' # WalletView(v)
                 => \E p \in Procs : pc'[p] # pc[p] /\ v \in WorksFor(p)
       /\ \A v \in SweepWallets :
             LET mine == {i \in LedgerOf(rows') : rows'[i].wallet = v}
             IN wallets'[v].balance
                    = bal0[v] + Sum([i \in mine |-> rows'[i].delta], mine)
       /\ \A e \in log' :
             e.op = "reserve" /\ e.res = "ok"
                 => /\ rows'[e.tx].wallet = e.wallet
                    /\ rows'[e.tx].idempotency_key = e.key
       /\ \A e, f \in log' :
             /\ e.op = "reserve" /\ f.op = "reserve"
             /\ e.res = "ok" /\ f.res = "ok"
             /\ e.wallet # f.wallet
             => e.tx # f.tx]_vars

\* both wallets hold a reservation made with the key "k1", each debited once,
\* and a sweep has reversed the first one only
C32_Witness ==
    /\ AllIdle
    /\ \E e, f \in log :
          /\ e.op = "reserve" /\ f.op = "reserve"
          /\ e.key = "k1" /\ f.key = "k1"
          /\ e.wallet = 1 /\ f.wallet = 2
          /\ e.res = "ok" /\ f.res = "ok"
          /\ e.how = "created" /\ f.how = "created"
          /\ e.tx # f.tx
          /\ rows[e.tx].tx_status = REVERSED
          /\ rows[f.tx].tx_status = PENDING
    /\ \E e \in log : e.op = "sweep" /\ e.total = 1
    /\ wallets[1].balance = bal0[1]
    /\ wallets[2].balance = bal0[2] - 1

\* C33: every PENDING row is a DEBIT with a negative delta; every CREDIT and
\* REFUND row is COMMITTED with a positive delta from its insertion on; a
\* row's wallet, delta, tx_type and idempotency_key never change once it is
\* inserted; and its tx_status and note change only in the step that takes it
\* away from PENDING
C33_RowShape ==
    [][/\ \A id \in DOMAIN rows' :
             /\ rows'[id].tx_status = PENDING
                    => rows'[id].tx_type = DEBIT /\ rows'[id].delta < 0
             /\ rows'[id].tx_type \in {CREDIT, REFUND}
                    => /\ rows'[id].tx_status = COMMITTED
                       /\ rows'[id].pstatus = COMMITTED
                       /\ rows'[id].delta > 0
       /\ \A id \in (DOMAIN rows) \cap (DOMAIN rows') :
             /\ rows'[id].wallet = rows[id].wallet
             /\ rows'[id].delta = rows[id].delta
             /\ rows'[id].tx_type = rows[id].tx_type
             /\ rows'[id].idempotency_key = rows[id].idempotency_key
             /\ rows'[id].created_at = rows[id].created_at
             /\ (rows'[id].tx_status # rows[id].tx_status
                 \/ rows'[id].note # rows[id].note)
                    => /\ rows[id].tx_status = PENDING
                       /\ rows'[id].tx_status \in {COMMITTED, REVERSED}
       /\ \A id \in LedgerOf(rows) : id \in LedgerOf(rows')]_vars

\* a top-up's CREDIT row, a reservation reversed with the caller's reason as
\* its note, and its REFUND row
C33_Witness ==
    /\ AllIdle
    /\ \E c, d, r \in Ledger :
          /\ rows[c].tx_type = CREDIT /\ rows[c].tx_status = COMMITTED
          /\ rows[d].tx_type = DEBIT /\ rows[d].tx_status = REVERSED
          /\ rows[d].note = "r1" /\ rows[d].delta = 0 - 2
          /\ rows[r].tx_type = REFUND /\ rows[r].delta = 2
          /\ rows[r].note = RefundNote(d, "r1")

\* C34: a running sweep never waits for a lock held by another transaction,
\* neither when it selects its batch nor while it reverses the rows of the
\* batch, the wallet-balance update of every reversed row included
C34_SweepNeverWaits ==
    \A p \in Procs : loc[p].op = "sweep" => WaitsFor(p) = NoProc

\* C35: deadlock freedom: no interleaving of concurrent sweeps, which keep
\* the row and wallet locks of a whole batch until the batch commits, with
\* each other and with the other services reaches a state where transactions
\* wait for each other's locks in a cycle
C35_NoDeadlock ==
    \A p \in Procs : ~Deadlocked(p)

\* C36: for every wallet, in every committed state, the balance is the
\* initial balance plus the sum of delta over all the wallet's ledger rows,
\* of every type and status; equivalently balance + sum(|delta| of PENDING
\* and COMMITTED DEBITs) - sum(delta of CREDITs) is the initial balance
C36_SignedConservation ==
    \A w \in Wallets :
        LET mine == {i \in Ledger : rows[i].wallet = w}
            held == {i \in mine : /\ rows[i].tx_type = DEBIT
                                  /\ rows[i].tx_status \in {PENDING, COMMITTED}}
            credits == {i \in mine : rows[i].tx_type = CREDIT}
        IN /\ wallets[w].balance
                = bal0[w] + Sum([i \in mine |-> rows[i].delta], mine)
           /\ wallets[w].balance
                + Sum([i \in held |-> 0 - rows[i].delta], held)
                - Sum([i \in credits |-> rows[i].delta], credits)
                = bal0[w]

\* a top-up of two credits and a reservation of one credit that was reversed:
\* a CREDIT, a REVERSED DEBIT and its REFUND are in the ledger
C36_Witness ==
    /\ AllIdle
    /\ Cardinality(Ledger) = 3
    /\ \E c, d, r \in Ledger :
          /\ rows[c].tx_type = CREDIT /\ rows[c].delta = 2
          /\ rows[d].tx_type = DEBIT /\ rows[d].delta = 0 - 1
          /\ rows[d].tx_status = REVERSED
          /\ rows[r].tx_type = REFUND /\ rows[r].delta = 1
    /\ wallets[1].balance = bal0[1] + 2

\* C37: a reserve(w, n, key=K) call (n valid, K a key) made when the ledger
\* holds a row for (w, K) returns that row and changes nothing - no row, no
\* balance - whatever the row's status, also when n is not the row's amount
\* and when the balance is below n: a hit never raises InsufficientCredits
\* (a row committed between the call's lookup and its insert is returned in
\* the same way)
C37_HitChangesNothing ==
    [][\A p \in Procs :
          LET held == {i \in Ledger : /\ rows[i].wallet = loc[p].wallet
                                      /\ rows[i].idempotency_key = loc[p].key}
          IN (/\ loc[p].op = "reserve"
              /\ loc[p].key \notin {NoKey, ""}
              /\ loc[p].amount > 0
              /\ held # {}
              /\ pc'[p] # pc[p])
             => /\ pc[p] \in {"res_validate", "res_get", "res_create"}
                /\ rows' = rows /\ wallets' = wallets /\ nextId' = nextId
                /\ pc[p] = "res_validate" => pc'[p] = "res_get" /\ log' = log
                /\ pc[p] # "res_validate"
                      => /\ pc'[p] = "idle"
                         /\ \E e \in log' \ log :
                               /\ log' = log \cup {e}
                               /\ e.proc = p /\ e.op = "reserve"
                               /\ e.wallet = loc[p].wallet
                               /\ e.amount = loc[p].amount
                               /\ e.res = "ok"
                               /\ e.how = IF pc[p] = "res_get" THEN "hit"
                                          ELSE "conflict"
                               /\ e.tx \in held]_vars

\* a reserve of two credits with the key of a committed one-credit
\* reservation, on a wallet whose balance is below two, returned that row
C37_Witness ==
    \E e \in ReserveCalls :
        /\ e.res = "ok" /\ e.how = "hit" /\ e.key = "k1" /\ e.amount = 2
        /\ rows[e.tx].delta = 0 - 1
        /\ rows[e.tx].tx_status = COMMITTED
        /\ wallets[e.wallet].balance < 2
        /\ Cardinality(Ledger) = 1

\* C38: a reserve with key K that fails with InsufficientCredits does not
\* consume the key: when it fails no row for (w, K) remains and no balance
\* has changed, and a later reserve with the same key on the wallet, funded by
\* then, creates a fresh PENDING reservation and debits its amount; and no
\* caller is ever returned a reservation that is absent from the committed
\* ledger, also among concurrent same-key reserves on an underfunded wallet
C38_FailureKeepsKeyFree ==
    [][/\ \A p \in Procs :
             (pc[p] = "res_rollback" /\ pc'[p] # pc[p])
                => /\ \A id \in DOMAIN rows' :
                         /\ rows'[id].xmin # p
                         /\ loc[p].key \notin {NoKey, ""}
                               => ~(/\ rows'[id].wallet = loc[p].wallet
                                    /\ rows'[id].idempotency_key = loc[p].key)
                   /\ LedgerOf(rows') = LedgerOf(rows)
                   /\ \A w \in Wallets :
                         /\ wallets'[w].balance = wallets[w].balance
                         /\ wallets'[w].lock # p
                   /\ \E e \in log' \ log :
                         /\ e.proc = p /\ e.res = "InsufficientCredits"
                         /\ e.tx = NoTx
       /\ \A e \in log' :
             e.op = "reserve" /\ e.res = "ok"
                => /\ e.tx \in LedgerOf(rows')
                   /\ rows'[e.tx].wallet = e.wallet
                   /\ rows'[e.tx].tx_type = DEBIT
       /\ \A id \in LedgerOf(rows') :
             rows'[id].idempotency_key \notin {NoKey, ""}
                => \E e \in log' : /\ e.op = "reserve" /\ e.res = "ok"
                                   /\ e.how = "created" /\ e.tx = id
       /\ \A e1 \in log, e2 \in log' \ log :
             (/\ e1.op = "reserve" /\ e2.op = "reserve"
              /\ e1.wallet = e2.wallet /\ e1.key = e2.key
              /\ e1.key \notin {NoKey, ""}
              /\ e1.res = "InsufficientCredits")
                => /\ e2.res \in {"ok", "InsufficientCredits", "ValueError"}
                   /\ e2.res = "ok" /\ e2.how = "created"
                         => /\ e2.tx \notin DOMAIN rows
                               \/ rows[e2.tx].xmin = e2.proc
                            /\ rows'[e2.tx].tx_status = PENDING
                            /\ rows'[e2.tx].delta = 0 - e2.amount
                            /\ rows'[e2.tx].idempotency_key = e2.key
                            /\ wallets'[e2.wallet].balance
                                  = wallets[e2.wallet].balance - e2.amount]_vars

\* a reserve with the key failed on the empty wallet, the wallet was topped
\* up, and the same caller's next reserve with the key created the one row
\* for the key and debited the wallet
C38_Witness ==
    /\ AllIdle
    /\ bal0[1] = 0
    /\ \E e1, e2 \in ReserveCalls :
          /\ e1.proc = e2.proc /\ e2.seq = e1.seq + 1
          /\ e1.key = "k1" /\ e2.key = "k1"
          /\ e1.res = "InsufficientCredits" /\ e1.amount = 2
          /\ e2.res = "ok" /\ e2.how = "created" /\ e2.amount = 2
          /\ rows[e2.tx].tx_status = PENDING
    /\ \E t \in TopUps : t.res = "ok" /\ t.amount = 2
    /\ wallets[1].balance = 0
    /\ Cardinality(Ledger) = 2

\* C39: a sweep batch is all-or-nothing: if the reversal of a row of the
\* batch fails, the batch's transaction rolls back - every row of the batch
\* is PENDING as before, no balance has changed and no REFUND row of the
\* batch exists - while the batches the call committed before stay reversed;
\* the failure leaves the sweep call, which returns no count
C39_BatchAllOrNothing ==
    [][\A p \in Procs :
          (/\ loc[p].op = "sweep"
           /\ pc[p] \in {"rev_select", "rev_save", "rev_wallet", "rev_refund",
                         "sw_commit"}
           /\ pc'[p] \notin {"rev_select", "rev_save", "rev_wallet",
                             "rev_refund", "sw_commit", "sw_select"})
          => LET mine == {i \in DOMAIN rows : rows[i].lock = p}
                 refunds == {j \in DOMAIN rows' : rows'[j].tx_type = REFUND}
                 reversed == {i \in LedgerOf(rows') :
                                 /\ rows'[i].tx_type = DEBIT
                                 /\ rows'[i].tx_status = REVERSED}
             IN /\ mine # {}
                /\ \A i \in mine :
                      /\ i \in LedgerOf(rows')
                      /\ rows'[i].tx_status = PENDING
                      /\ rows'[i].pstatus = PENDING
                      /\ rows'[i].note = "api-request"
                      /\ rows'[i].lock = NoProc
                      /\ \A j \in refunds : rows'[j].note[2] # i
                /\ LedgerOf(rows') = LedgerOf(rows)
                /\ \A i \in LedgerOf(rows) :
                      /\ rows'[i].tx_status = rows[i].tx_status
                      /\ rows'[i].note = rows[i].note
                /\ \A j \in DOMAIN rows' : rows'[j].xmin = NoProc
                /\ \A w \in DOMAIN wallets :
                      /\ wallets'[w].balance = wallets[w].balance
                      /\ wallets'[w].pbalance = wallets[w].balance
                      /\ wallets'[w].lock = NoProc
                /\ pc'[p] = "idle"
                /\ \E e \in log' \ log :
                      /\ log' = log \cup {e}
                      /\ e.proc = p /\ e.op = "sweep"
                      /\ e.res = "IntegrityError"
                      /\ e.total = loc[p].total
                /\ Cardinality(reversed)
                      = Sum([e \in log' |-> e.total], log')
                /\ Cardinality(refunds) = Cardinality(reversed)]_vars

\* a sweep with chunk size 2 over four stale rows committed its first batch
\* and failed in the second one, at the REFUND insert of that batch's second
\* row: rows 1 and 2 are REVERSED, rows 3 and 4 PENDING, two REFUND rows
C39_Witness ==
    /\ AllIdle
    /\ Cardinality(log) = 1
    /\ \E e \in log :
          /\ e.op = "sweep" /\ e.res = "IntegrityError"
          /\ e.how = "rev_refund" /\ e.tx = 4 /\ e.total = 2
    /\ \A i \in {1, 2} : rows[i].tx_status = REVERSED
    /\ \A i \in {3, 4} : rows[i].tx_status = PENDING /\ rows[i].created_at = 0
    /\ Cardinality({j \in Ledger : rows[j].tx_type = REFUND}) = 2
    /\ \A w \in DOMAIN wallets :
          wallets[w].balance
             = Cardinality({i \in {1, 2} : rows[i].wallet = w})

\* C40: while the wrapped handler runs, the request holds no lock on its
\* reservation row or on the wallet row: the reserve transaction has
\* committed before the handler starts, so that a concurrent commit, reverse
\* or sweep on the reservation does not wait for the request
C40_HandlerHoldsNoLock ==
    \A p \in Procs :
        pc[p] = "wr_handler"
        => /\ loc[p].tx \in Ledger
           /\ rows[loc[p].tx].wallet = loc[p].wallet
           /\ \A id \in DOMAIN rows : rows[id].lock # p /\ rows[id].xmin # p
           /\ \A w \in DOMAIN wallets : wallets[w].lock # p
           /\ \A q \in Procs : WaitsFor(q) # p

\* a request is in its handler, its reservation still PENDING in the ledger,
\* and a concurrent sweep has taken the lock of that reservation's row and
\* the wallet's lock
C40_Witness ==
    \E p, q \in Procs :
        /\ pc[p] = "wr_handler"
        /\ loc[p].how = "created"
        /\ rows[loc[p].tx].tx_status = PENDING
        /\ loc[q].op = "sweep"
        /\ rows[loc[p].tx].lock = q
        /\ wallets[loc[p].wallet].lock = q

====
